---- MODULE Spec2Model ----
(***************************************************************************)
(* Token lifecycle of the nckh authentication core: the Go worker's        *)
(* AuthService (Register, Login, RefreshAccessToken, ValidateAccessToken)  *)
(* with its gRPC handler, and the gateway's Session Registry               *)
(* (RedisService), TokenService and Passport strategies.                   *)
(*                                                                         *)
(* Time is counted in whole seconds (jwt.NumericDate and the Redis TTLs    *)
(* both have one-second precision).  A user id stands for the UUID that    *)
(* uuid.NewV7 returns; a password hash is the bcrypt hash of a password.   *)
(***************************************************************************)
EXTENDS Integers, Sequences, FiniteSets, TLC

\* ------------------------------------------------------------------ bounds
MaxTime == 2
MaxTtl == 2

\* ------------------------------------------------------------- input sets
\* The registration requests that are tried.  "a@x" is an e-mail address and
\* also a user name that RegisterDto accepts (username: IsString, MinLength(3)).
\* The second request reuses no e-mail and no user name of the first; the third
\* reuses the user name of the first and the e-mail of the second.
RegisterRequests ==
    {[email |-> "a@x", username |-> "alice", password |-> "pw1"],
     [email |-> "b@x", username |-> "a@x", password |-> "pw2"],
     [email |-> "b@x", username |-> "alice", password |-> "pw1"]}
Passwords == {r.password : r \in RegisterRequests}
Identifiers == {r.email : r \in RegisterRequests} \cup {r.username : r \in RegisterRequests}
TokenIds == {"j1", "j2"}
Ttls == 1..MaxTtl
Times == 0..MaxTime

VARIABLES
    now,          \* the wall clock, in seconds
    cfg,          \* the configuration both services were started with
    users,        \* table users: id -> row
    permissions,  \* table permissions joined with resources: role id -> set of "resource:ACTION"
    lastLoginJobs,\* goroutines dispatched by Login that have not run yet
    redis,        \* the gateway's Redis keyspace: key -> [val, exp]
    deadline,     \* tokenId -> instant at which the TTL of its latest blacklist entry elapses
    revoked,      \* the refresh tokens clients held for a user when the user logged out
                  \* of all devices
    calls,        \* the calls in flight that run one step at a time: caller -> the
                  \* call and the step it is at
    last          \* the call that was made last and its answer; between calls, the
                  \* tokens of that answer which the client still holds

vars == <<now, cfg, calls, users, permissions, lastLoginJobs, redis, deadline, revoked, last>>

workerVars == <<users, permissions, lastLoginJobs>>
gatewayVars == <<redis, deadline, revoked>>

\* ------------------------------------------------------------ domain types
\* domain errors (var block) and error codes (const block)
ErrUserNotFound == "user not found"
ErrEmailAlreadyExists == "email already exists"
ErrUsernameAlreadyExists == "username already exists"
ErrUserInactive == "user account is inactive"
ErrInvalidCredentials == "invalid credentials"
ErrIncorrectPassword == "incorrect password"
ErrInvalidToken == "invalid token"
ErrTokenExpired == "token has expired"
ErrRoleNotFound == "role not found"
ErrDefaultRoleNotFound == "default role not found"
ErrHashingPassword == "failed to hash password"
ErrGeneratingToken == "failed to generate token"
ErrGeneratingUUID == "failed to generate UUID"
ErrDatabaseOperation == "database operation failed"

CodeUserNotFound == "USER_NOT_FOUND"
CodeUserAlreadyExists == "USER_ALREADY_EXISTS"
CodeInvalidCredentials == "INVALID_CREDENTIALS"
CodeIncorrectPassword == "INCORRECT_PASSWORD"
CodeInvalidToken == "INVALID_TOKEN"
CodeTokenExpired == "TOKEN_EXPIRED"
CodeInternalError == "INTERNAL_ERROR"

NewAuthError(err, message, code) == [err |-> err, message |-> message, code |-> code]
NoError == [err |-> "", message |-> "", code |-> ""]

\* roles table: id -> row.  GetDefaultRole selects the row with code 'STUDENT'.
Roles == [r1 |-> [name |-> "Student", code |-> "STUDENT"],
          r2 |-> [name |-> "Admin", code |-> "ADMIN"]]
RoleIds == DOMAIN Roles
GetDefaultRole == CHOOSE r \in RoleIds : Roles[r].code = "STUDENT"
Grants == {"users:READ"}

\* bcrypt.GenerateFromPassword / bcrypt.CompareHashAndPassword
BcryptHash(password) == "$2a$10$" \o password
CompareHashAndPassword(hash, password) == hash = BcryptHash(password)

\* uuid.NewV7: a value no earlier call returned.  Register asks for one only
\* after it found no row with the e-mail address, so naming the value after
\* the address keeps it fresh.
NewUserId(email) == "id-" \o email

NoToken == [alg |-> "", key |-> "", claims |-> <<>>]
NoUser == [id |-> ""]

\* --------------------------------------------------------------- Token Codec
Issuer == "worker-auth-service"

\* jwt.NewWithClaims(jwt.SigningMethodHS256, claims).SignedString(key)
SignedString(key, claims) == [alg |-> "HS256", key |-> key, claims |-> claims]

\* a claim of a decoded token; a claim the token does not carry decodes to the
\* zero value
Claim(token, name) == IF name \in DOMAIN token.claims THEN token.claims[name] ELSE ""

\* an access token that would carry the user's password field
generateAccessToken_WithPassword(user) ==
    SignedString(cfg.accessSecret,
                 [sub |-> user.id, iat |-> now, exp |-> now + cfg.accessExpiration,
                  iss |-> Issuer, username |-> user.username, role |-> user.roleCode,
                  password |-> user.password])

generateAccessToken(user) ==
    SignedString(cfg.accessSecret,
                 [sub |-> user.id, iat |-> now, exp |-> now + cfg.accessExpiration,
                  iss |-> Issuer, username |-> user.username, role |-> user.roleCode])

generateRefreshToken(userID) ==
    SignedString(cfg.refreshSecret,
                 [sub |-> userID, iat |-> now, exp |-> now + cfg.refreshExpiration,
                  iss |-> Issuer])

\* a parser that would verify the registered claims before the signature
ParseWithClaims_ClaimsFirst(token, secret) ==
    IF token.alg # "HS256" THEN "token is unverifiable"
    ELSE IF ~(now < token.claims.exp) THEN "token is expired"
    ELSE IF token.key # secret THEN "signature is invalid"
    ELSE ""

\* jwt.ParseWithClaims with the HMAC key function: the signing method, then the
\* signature, then the registered claims (exp) are verified, in that order.
\* "" when the token verifies, else the jwt error.
ParseWithClaims(token, secret) ==
    IF token.alg # "HS256" THEN "token is unverifiable"
    ELSE IF token.key # secret THEN "signature is invalid"
    ELSE IF ~(now < token.claims.exp) THEN "token is expired"
    ELSE ""

\* ---------------------------------------------------------- Credential Store
\* SELECT ... WHERE u.email = $1 OR u.username = $1: the rows that match.  The
\* query is run with QueryRow, which yields whichever matching row comes first.
FindByEmailOrUsername(identifier) ==
    {id \in DOMAIN users : users[id].email = identifier \/ users[id].username = identifier}

ExistsByEmail(email) == \E id \in DOMAIN users : users[id].email = email
\* a user-name check that would never find a row
ExistsByUsername_Never(username) == FALSE
ExistsByUsername(username) == \E id \in DOMAIN users : users[id].username = username

\* a row mapping that would report the role every account starts with
RowToDomain_DefaultRole(id) ==
    [id |-> id, roleId |-> users[id].roleId, email |-> users[id].email,
     username |-> users[id].username, password |-> users[id].password,
     isActive |-> users[id].isActive,
     roleName |-> "Student", roleCode |-> "STUDENT",
     permissions |-> {}]

\* the domain.User a Get... row maps to (role name and code from the LEFT JOIN)
RowToDomain(id) ==
    [id |-> id, roleId |-> users[id].roleId, email |-> users[id].email,
     username |-> users[id].username, password |-> users[id].password,
     isActive |-> users[id].isActive,
     roleName |-> Roles[users[id].roleId].name, roleCode |-> Roles[users[id].roleId].code,
     permissions |-> {}]

\* a permission query that would return no row
GetPermissionsByRoleID_None(roleId) == {}
GetPermissionsByRoleID(roleId) == permissions[roleId]

\* an insert that would store is_active = false
NewUserRow_Inactive(email, username, hashedPassword, roleId) ==
    [email |-> email, username |-> username, password |-> hashedPassword,
     roleId |-> roleId, isActive |-> FALSE, lastLogin |-> -1]

\* the users row CreateUser inserts
NewUserRow(email, username, hashedPassword, roleId) ==
    [email |-> email, username |-> username, password |-> hashedPassword,
     roleId |-> roleId, isActive |-> TRUE, lastLogin |-> -1]

\* ------------------------------------------------------------ gRPC status
\* google.golang.org/grpc/codes, by name
codes == [OK |-> 0, Cancelled |-> 1, Unknown |-> 2, InvalidArgument |-> 3,
          DeadlineExceeded |-> 4, NotFound |-> 5, AlreadyExists |-> 6,
          PermissionDenied |-> 7, ResourceExhausted |-> 8, FailedPrecondition |-> 9,
          Aborted |-> 10, OutOfRange |-> 11, Unimplemented |-> 12, Internal |-> 13,
          Unavailable |-> 14, DataLoss |-> 15, Unauthenticated |-> 16]

\* mapDomainErrorToGRPC: the status code of the error the handler returns
mapDomainErrorToGRPC(authErr) ==
    IF authErr = NoError THEN codes.OK
    ELSE IF authErr.code = CodeUserNotFound THEN codes.NotFound
    ELSE IF authErr.code = CodeUserAlreadyExists THEN codes.AlreadyExists
    ELSE IF authErr.code \in {CodeInvalidCredentials, CodeIncorrectPassword}
    THEN codes.Unauthenticated
    ELSE IF authErr.code \in {CodeInvalidToken, CodeTokenExpired} THEN codes.Unauthenticated
    ELSE codes.Internal

\* ------------------------------------------------------------- Auth Engine
RegisterFaults == {"none", "exists_email", "exists_username", "hash", "uuid",
                   "default_role", "create_user", "sign_access", "sign_refresh"}
LoginFaults == {"none", "find_user", "bcrypt", "find_role", "get_permissions",
                "sign_access", "sign_refresh"}

\* a failure that would pass on the text of the collaborator's error
Failure_RawText(op, args, fault, e) ==
    [op |-> op, args |-> args, fault |-> fault,
     err |-> [e EXCEPT !.message = "pq: " \o fault \o " failed"], user |-> NoUser,
     accessToken |-> NoToken, refreshToken |-> NoToken, dispatch |-> FALSE, grants |-> {},
     status |-> mapDomainErrorToGRPC(e)]

\* a failure that would start the goroutine all the same
Failure_Dispatching(op, args, fault, e) ==
    [op |-> op, args |-> args, fault |-> fault, err |-> e, user |-> NoUser,
     accessToken |-> NoToken, refreshToken |-> NoToken, dispatch |-> TRUE, grants |-> {},
     status |-> mapDomainErrorToGRPC(e)]

\* (*ports.AuthResponse, error) of Register and Login and the status the
\* handler answers the RPC with; fault names the collaborator call (repository,
\* bcrypt, signer) that failed during the call, dispatch tells whether the call
\* started the UpdateLastLogin goroutine
Failure(op, args, fault, e) ==
    [op |-> op, args |-> args, fault |-> fault, err |-> e, user |-> NoUser,
     accessToken |-> NoToken, refreshToken |-> NoToken, dispatch |-> FALSE, grants |-> {},
     status |-> mapDomainErrorToGRPC(e)]

\* grants: what the user's role granted when the tokens were issued
Success(op, args, fault, user, access, refresh) ==
    [op |-> op, args |-> args, fault |-> fault, err |-> NoError, user |-> user,
     accessToken |-> access, refreshToken |-> refresh, dispatch |-> op = "Login",
     grants |-> permissions[user.roleId], status |-> codes.OK]

\* the tokens the client holds after the latest answer, the RPC that issued
\* the access token and what the user's role granted then
Wallet ==
    IF "accessToken" \in DOMAIN last /\ last.accessToken # NoToken
    THEN [accessToken |-> last.accessToken, refreshToken |-> last.refreshToken,
          by |-> IF "by" \in DOMAIN last THEN last.by ELSE last.op, grants |-> last.grants]
    ELSE [accessToken |-> NoToken, refreshToken |-> NoToken, by |-> "", grants |-> {}]

\* no call is being answered; the client keeps its tokens
Idle == [op |-> "idle", accessToken |-> Wallet.accessToken,
         refreshToken |-> Wallet.refreshToken, by |-> Wallet.by, grants |-> Wallet.grants]

\* AuthService.Register: what it answers, before any effect on the store
RegisterOutcome(args, fault) ==
    IF fault = "exists_email"
    THEN NewAuthError(ErrDatabaseOperation, "failed to check email existence", CodeInternalError)
    ELSE IF ExistsByEmail(args.email)
    THEN NewAuthError(ErrEmailAlreadyExists, "email is already registered", CodeUserAlreadyExists)
    ELSE IF fault = "exists_username"
    THEN NewAuthError(ErrDatabaseOperation, "failed to check username existence", CodeInternalError)
    ELSE IF ExistsByUsername(args.username)
    THEN NewAuthError(ErrUsernameAlreadyExists, "username is already taken", CodeUserAlreadyExists)
    ELSE IF fault = "hash"
    THEN NewAuthError(ErrHashingPassword, "failed to secure password", CodeInternalError)
    ELSE IF fault = "uuid"
    THEN NewAuthError(ErrGeneratingUUID, "failed to generate user ID", CodeInternalError)
    ELSE IF fault = "default_role"
    THEN NewAuthError(ErrDefaultRoleNotFound, "failed to assign default role", CodeInternalError)
    ELSE IF fault = "create_user"
    THEN NewAuthError(ErrDatabaseOperation, "failed to create user account", CodeInternalError)
    ELSE IF fault = "sign_access"
    THEN NewAuthError(ErrGeneratingToken, "failed to generate access token", CodeInternalError)
    ELSE IF fault = "sign_refresh"
    THEN NewAuthError(ErrGeneratingToken, "failed to generate refresh token", CodeInternalError)
    ELSE NoError

\* the collaborator call that failed during the call ("none": every call it
\* made succeeded)
RegisterFailedAt(args, fault) ==
    IF RegisterOutcome(args, fault).code = CodeInternalError THEN fault ELSE "none"

\* whether Register got as far as a successful CreateUser
RegisterPersists(args, fault) ==
    /\ RegisterOutcome(args, fault) \in {NoError} \cup
         {NewAuthError(ErrGeneratingToken, m, CodeInternalError) :
            m \in {"failed to generate access token", "failed to generate refresh token"}}

\* UserRepository.CreateUser: the table with the new row
CreateUser(args) ==
    LET id == NewUserId(args.email)
        row == NewUserRow(args.email, args.username, BcryptHash(args.password), GetDefaultRole)
    IN  [i \in DOMAIN users \cup {id} |-> IF i = id THEN row ELSE users[i]]

\* AuthService.Register: (*ports.AuthResponse, error)
RegisterAnswer(args, fault) ==
    LET e == RegisterOutcome(args, fault)
        id == NewUserId(args.email)
        role == GetDefaultRole
        createdUser == [id |-> id, roleId |-> role, email |-> args.email,
                        username |-> args.username,
                        password |-> BcryptHash(args.password), isActive |-> TRUE,
                        roleName |-> Roles[role].name, roleCode |-> Roles[role].code,
                        permissions |-> {}]
    IN  IF e = NoError
        THEN Success("Register", args, "none", [createdUser EXCEPT !.password = ""],
                     generateAccessToken(createdUser), generateRefreshToken(id))
        ELSE Failure("Register", args, RegisterFailedAt(args, fault), e)

Register(args, fault) ==
    /\ users' = IF RegisterPersists(args, fault) THEN CreateUser(args) ELSE users
    /\ last' = RegisterAnswer(args, fault)
    /\ UNCHANGED <<now, cfg, calls, permissions, lastLoginJobs, gatewayVars>>

\* ---- Register one repository call at a time, for callers that run side by side
Callers == {"c1", "c2"}

\* a call enters its next step, a call returns
Proceed(c, call) == [k \in DOMAIN calls \cup {c} |-> IF k = c THEN call ELSE calls[k]]
Return(c) == [k \in DOMAIN calls \ {c} |-> calls[k]]

\* step 1: ExistsByEmail
RegisterExistsByEmail(c, args) ==
    /\ c \notin DOMAIN calls
    /\ IF ExistsByEmail(args.email)
       THEN /\ last' = Failure("Register", args, "none",
                               NewAuthError(ErrEmailAlreadyExists, "email is already registered",
                                            CodeUserAlreadyExists))
            /\ calls' = calls
       ELSE /\ last' = Idle
            /\ calls' = Proceed(c, [op |-> "Register", args |-> args, pc |-> "ExistsByUsername"])
    /\ UNCHANGED <<now, cfg, workerVars, gatewayVars>>

\* step 2: ExistsByUsername
RegisterExistsByUsername(c) ==
    /\ c \in DOMAIN calls
    /\ calls[c].op = "Register" /\ calls[c].pc = "ExistsByUsername"
    /\ IF ExistsByUsername(calls[c].args.username)
       THEN /\ last' = Failure("Register", calls[c].args, "none",
                               NewAuthError(ErrUsernameAlreadyExists, "username is already taken",
                                            CodeUserAlreadyExists))
            /\ calls' = Return(c)
       ELSE /\ last' = Idle
            /\ calls' = Proceed(c, [calls[c] EXCEPT !.pc = "CreateUser"])
    /\ UNCHANGED <<now, cfg, workerVars, gatewayVars>>

\* steps 3 to 8: the INSERT of CreateUser, which the unique constraints on
\* users.email and users.username reject when a row holds either value, and
\* the token issuance
RegisterCreateUser(c) ==
    /\ c \in DOMAIN calls
    /\ calls[c].op = "Register" /\ calls[c].pc = "CreateUser"
    /\ IF ExistsByEmail(calls[c].args.email) \/ ExistsByUsername(calls[c].args.username)
       THEN /\ last' = Failure("Register", calls[c].args, "create_user",
                               NewAuthError(ErrDatabaseOperation, "failed to create user account",
                                            CodeInternalError))
            /\ users' = users
       ELSE /\ last' = RegisterAnswer(calls[c].args, "none")
            /\ users' = CreateUser(calls[c].args)
    /\ calls' = Return(c)
    /\ UNCHANGED <<now, cfg, permissions, lastLoginJobs, gatewayVars>>

\* AuthService.Login once FindByEmailOrUsername has returned the row id
LoginAs(args, fault, id) ==
    LET user == RowToDomain(id)
        perms == IF fault = "get_permissions" THEN {} ELSE GetPermissionsByRoleID(user.roleId)
        access == generateAccessToken(user)
        refresh == generateRefreshToken(user.id)
    IN  IF ~user.isActive
        THEN Failure("Login", args, "none",
                     NewAuthError(ErrUserInactive, "user account is deactivated", CodeInvalidCredentials))
        ELSE IF fault = "bcrypt"
        THEN Failure("Login", args, fault,
                     NewAuthError(ErrInvalidCredentials, "password verification failed", CodeInternalError))
        ELSE IF ~CompareHashAndPassword(user.password, args.password)
        THEN Failure("Login", args, "none",
                     NewAuthError(ErrIncorrectPassword, "incorrect password", CodeIncorrectPassword))
        ELSE IF fault = "find_role"
        THEN Failure("Login", args, fault,
                     NewAuthError(ErrRoleNotFound, "failed to fetch user role", CodeInternalError))
        ELSE IF fault = "sign_access"
        THEN Failure("Login", args, fault,
                     NewAuthError(ErrGeneratingToken, "failed to generate access token", CodeInternalError))
        ELSE IF fault = "sign_refresh"
        THEN Failure("Login", args, fault,
                     NewAuthError(ErrGeneratingToken, "failed to generate refresh token", CodeInternalError))
        ELSE Success("Login", args, IF fault = "get_permissions" THEN fault ELSE "none",
                     [user EXCEPT !.password = "", !.permissions = perms], access, refresh)

\* the answers AuthService.Login can give
LoginAnswers(args, fault) ==
    IF fault = "find_user"
    THEN {Failure("Login", args, fault,
                  NewAuthError(ErrDatabaseOperation, "failed to fetch user", CodeInternalError))}
    ELSE IF FindByEmailOrUsername(args.identifier) = {}
    THEN {Failure("Login", args, "none",
                  NewAuthError(ErrUserNotFound, "user not found with provided credentials",
                               CodeUserNotFound))}
    ELSE {LoginAs(args, fault, id) : id \in FindByEmailOrUsername(args.identifier)}

Login(identifier, password, fault) ==
    /\ \E r \in LoginAnswers([identifier |-> identifier, password |-> password], fault) :
            /\ last' = r
            /\ lastLoginJobs' = IF r.dispatch THEN lastLoginJobs \cup {r.user.id}
                                ELSE lastLoginJobs
    /\ UNCHANGED <<now, cfg, calls, users, permissions, gatewayVars>>

\* the goroutine Login starts: UserRepository.UpdateLastLogin, its error dropped
UpdateLastLogin(id, ok) ==
    /\ id \in lastLoginJobs
    /\ lastLoginJobs' = lastLoginJobs \ {id}
    /\ users' = IF ok THEN [users EXCEPT ![id].lastLogin = now] ELSE users
    /\ last' = Idle
    /\ UNCHANGED <<now, cfg, calls, permissions, gatewayVars>>

\* a lookup that would find no row
FindByID_None(id) == {}

\* UserRepository.FindByID: the row, or ErrUserNotFound
FindByID(id) == IF id \in DOMAIN users THEN {id} ELSE {}

ValidateFaults == {"none", "find_user", "get_permissions"}

\* AuthService.ValidateAccessToken: (*ports.ValidateResponse, error)
ValidateAccessToken(token, fault) ==
    LET perr == ParseWithClaims(token, cfg.accessSecret)
        sub == Claim(token, "sub")
        degraded == [err |-> NoError, valid |-> TRUE, userID |-> sub, email |-> "",
                     permissions |-> {}]
        invalid(e) == [err |-> e, valid |-> FALSE, userID |-> "", email |-> "",
                       permissions |-> {}]
    IN  IF perr = "token is expired"
        THEN invalid(NewAuthError(ErrTokenExpired, "access token has expired", CodeTokenExpired))
        ELSE IF perr # ""
        THEN invalid(NewAuthError(ErrInvalidToken, "invalid access token", CodeInvalidToken))
        ELSE IF fault = "find_user" \/ FindByID(sub) = {}
        THEN degraded
        ELSE [degraded EXCEPT !.email = users[sub].email,
                              !.permissions = IF fault = "get_permissions" THEN {}
                                              ELSE GetPermissionsByRoleID(users[sub].roleId)]

\* AuthHandler.ValidateToken: the response message and the gRPC status
ValidateTokenResponse(result) ==
    IF result.err # NoError
    THEN [valid |-> FALSE, message |-> result.err.message, user |-> NoUser, status |-> "OK"]
    ELSE [valid |-> result.valid, message |-> "Token is valid",
          user |-> [id |-> result.userID, email |-> result.email,
                    permissions |-> result.permissions],
          status |-> "OK"]

\* mapUserToProto: the pb.User of a domain.User (nil for nil)
mapUserToProto(user) ==
    IF user = NoUser THEN NoUser
    ELSE [id |-> user.id, username |-> user.username, email |-> user.email,
          roleId |-> user.roleId, roleName |-> user.roleName, roleCode |-> user.roleCode,
          permissions |-> user.permissions]

\* what a caller can present as a token: a token it holds, the same token signed
\* with a key of its own, or with another algorithm in the header
OtherSecret == "k_other"
Presentable ==
    LET own == {Wallet.accessToken, Wallet.refreshToken} \ {NoToken}
    IN  own \cup {[t EXCEPT !.key = OtherSecret] : t \in own}
            \cup {[t EXCEPT !.alg = "RS256"] : t \in own}

ValidateToken(token, fault) ==
    /\ ParseWithClaims(token, cfg.accessSecret) # "" => fault = "none"
    /\ last' = [op |-> "ValidateToken", args |-> [accessToken |-> token], fault |-> fault,
                issued |-> IF token = Wallet.accessToken
                           THEN [by |-> Wallet.by, grants |-> Wallet.grants]
                           ELSE [by |-> "", grants |-> {}],
                result |-> ValidateAccessToken(token, fault),
                response |-> ValidateTokenResponse(ValidateAccessToken(token, fault))]
    /\ UNCHANGED <<now, cfg, calls, workerVars, gatewayVars>>

RefreshFaults == {"none", "find_user", "find_role", "sign_access"}

\* AuthService.parseRefreshToken: the AuthError, or NoError
parseRefreshToken(token) ==
    LET perr == ParseWithClaims(token, cfg.refreshSecret)
    IN  IF perr = "token is expired"
        THEN NewAuthError(ErrTokenExpired, "refresh token has expired", CodeTokenExpired)
        ELSE IF perr # ""
        THEN NewAuthError(ErrInvalidToken, "invalid refresh token", CodeInvalidToken)
        ELSE NoError

\* AuthService.RefreshAccessToken: (*ports.TokenResponse, error)
RefreshAccessToken(token, fault) ==
    LET sub == Claim(token, "sub")
        fail(e) == [err |-> e, accessToken |-> NoToken]
    IN  IF parseRefreshToken(token) # NoError
        THEN fail(parseRefreshToken(token))
        ELSE IF fault = "find_user"
        THEN fail(NewAuthError(ErrDatabaseOperation, "failed to verify user", CodeInternalError))
        ELSE IF FindByID(sub) = {}
        THEN fail(NewAuthError(ErrUserNotFound, "user no longer exists", CodeUserNotFound))
        ELSE IF ~users[sub].isActive
        THEN fail(NewAuthError(ErrUserInactive, "user account is deactivated", CodeInvalidCredentials))
        ELSE IF fault = "find_role"
        THEN fail(NewAuthError(ErrRoleNotFound, "failed to fetch user role", CodeInternalError))
        ELSE IF fault = "sign_access"
        THEN fail(NewAuthError(ErrGeneratingToken, "failed to generate new access token",
                               CodeInternalError))
        ELSE [err |-> NoError, accessToken |-> generateAccessToken(RowToDomain(sub))]

\* AuthHandler.RefreshToken; the client keeps the refresh token it presented
\* beside the new access token
RefreshToken(token, fault) ==
    LET r == RefreshAccessToken(token, fault)
    IN  /\ r.err.code # CodeInternalError => fault = "none"
        /\ last' = [op |-> "RefreshToken", args |-> [refreshToken |-> token], fault |-> fault,
                    err |-> r.err, status |-> mapDomainErrorToGRPC(r.err),
                    accessToken |-> r.accessToken,
                    refreshToken |-> IF r.err = NoError THEN token ELSE NoToken,
                    grants |-> IF r.err = NoError
                               THEN permissions[users[Claim(token, "sub")].roleId] ELSE {}]
        /\ UNCHANGED <<now, cfg, calls, users, permissions, lastLoginJobs, gatewayVars>>

\* ------------------------------------------------- changes made to the store
\* by an administrator (UPDATE users SET is_active; edits of table permissions)
SetActive(id, active) ==
    /\ id \in DOMAIN users
    /\ users[id].isActive # active
    /\ users' = [users EXCEPT ![id].isActive = active]
    /\ last' = Idle
    /\ UNCHANGED <<now, cfg, calls, permissions, lastLoginJobs, gatewayVars>>

\* UPDATE users SET role_id
SetRole(id, roleId) ==
    /\ id \in DOMAIN users
    /\ users[id].roleId # roleId
    /\ users' = [users EXCEPT ![id].roleId = roleId]
    /\ last' = Idle
    /\ UNCHANGED <<now, cfg, calls, permissions, lastLoginJobs, gatewayVars>>

\* DELETE FROM users WHERE id = $1
DeleteUser(id) ==
    /\ id \in DOMAIN users
    /\ users' = [i \in DOMAIN users \ {id} |-> users[i]]
    /\ last' = Idle
    /\ UNCHANGED <<now, cfg, calls, permissions, lastLoginJobs, gatewayVars>>

SetGrants(roleId, grants) ==
    /\ permissions[roleId] # grants
    /\ permissions' = [permissions EXCEPT ![roleId] = grants]
    /\ last' = Idle
    /\ UNCHANGED <<now, cfg, calls, users, lastLoginJobs, gatewayVars>>

\* ------------------------------------------------------------------- time
\* a key that would outlive its TTL
Evict_Never(db, t) == db

\* a Redis key with a TTL is gone once its expiry instant is reached; a key
\* without one (exp < 0) stays
Evict(db, t) == [k \in {k \in DOMAIN db : db[k].exp < 0 \/ db[k].exp > t} |-> db[k]]

Tick ==
    /\ now < MaxTime
    /\ now' = now + 1
    /\ redis' = Evict(redis, now + 1)
    /\ last' = Idle
    /\ UNCHANGED <<cfg, calls, workerVars, deadline, revoked>>

\* ---------------------------------------------------------------- Redis
Null == [null |-> TRUE]

\* SETEX key seconds value
SetEx(db, key, ttl, val) ==
    [k \in DOMAIN db \cup {key} |-> IF k = key THEN [val |-> val, exp |-> now + ttl] ELSE db[k]]

\* GET key
Get(db, key) == IF key \in DOMAIN db THEN db[key].val ELSE Null

\* EXISTS key
Exists(db, key) == IF key \in DOMAIN db THEN 1 ELSE 0

\* DEL key [key ...]
Del(db, keys) == [k \in DOMAIN db \ keys |-> db[k]]

\* SMEMBERS key
SMembers(db, key) == IF key \in DOMAIN db THEN db[key].val ELSE {}

\* SCARD key
SCard(db, key) == Cardinality(SMembers(db, key))

\* SADD key member: a new set has no TTL, an existing one keeps its own
SAdd(db, key, member) ==
    [k \in DOMAIN db \cup {key} |->
        IF k # key THEN db[k]
        ELSE IF key \in DOMAIN db THEN [db[key] EXCEPT !.val = @ \cup {member}]
        ELSE [val |-> {member}, exp |-> -1]]

\* SREM key member: a set left empty is removed
SRem(db, key, member) ==
    IF key \notin DOMAIN db THEN db
    ELSE IF db[key].val \ {member} = {} THEN Del(db, {key})
    ELSE [db EXCEPT ![key].val = @ \ {member}]

\* EXPIRE key seconds
Expire(db, key, ttl) ==
    IF key \in DOMAIN db THEN [db EXCEPT ![key].exp = now + ttl] ELSE db

\* ------------------------------------------------------- Session Registry
REFRESH_TOKEN == "refresh_token"
BLACKLIST == "blacklist"
USER_SESSIONS == "sessions"

\* parts.join(':')
RECURSIVE buildKey(_)
buildKey(parts) ==
    IF Len(parts) = 1 THEN parts[1]
    ELSE parts[1] \o ":" \o buildKey(Tail(parts))

\* RedisService.addUserSession
addUserSession(db, userId, tokenId) ==
    LET key == buildKey(<<USER_SESSIONS, userId>>)
    IN  Expire(SAdd(db, key, tokenId), key, cfg.refreshTokenTtl)

\* a removal that would leave the session set as it is
removeUserSession_Keep(db, userId, tokenId) == db

\* RedisService.removeUserSession
removeUserSession(db, userId, tokenId) ==
    SRem(db, buildKey(<<USER_SESSIONS, userId>>), tokenId)

\* the TokenMetadata storeRefreshToken writes (Date.now() is in milliseconds)
TokenMetadata(userId, metadata) ==
    [userId |-> userId, deviceInfo |-> metadata.deviceInfo, ip |-> metadata.ip,
     createdAt |-> now * 1000, expiresAt |-> now * 1000 + cfg.refreshTokenTtl * 1000]

\* RedisService.storeRefreshToken
storeRefreshToken(db, userId, tokenId, metadata) ==
    addUserSession(SetEx(db, buildKey(<<REFRESH_TOKEN, userId, tokenId>>), cfg.refreshTokenTtl,
                         TokenMetadata(userId, metadata)),
                   userId, tokenId)

\* RedisService.validateRefreshToken: the metadata, or null
validateRefreshToken(db, userId, tokenId) ==
    Get(db, buildKey(<<REFRESH_TOKEN, userId, tokenId>>))

\* RedisService.revokeRefreshToken
revokeRefreshToken(db, userId, tokenId) ==
    removeUserSession(Del(db, {buildKey(<<REFRESH_TOKEN, userId, tokenId>>)}), userId, tokenId)

\* a logout-all that would drop the session set and keep the token entries
revokeAllUserTokens_IndexOnly(db, userId) ==
    Del(db, {buildKey(<<USER_SESSIONS, userId>>)})

\* RedisService.revokeAllUserTokens: the keyspace it leaves (its answer is
\* the number of members the session set had)
revokeAllUserTokens(db, userId) ==
    LET sessionKey == buildKey(<<USER_SESSIONS, userId>>)
        tokenIds == SMembers(db, sessionKey)
    IN  IF Cardinality(tokenIds) = 0 THEN db
        ELSE Del(db, {buildKey(<<REFRESH_TOKEN, userId, t>>) : t \in tokenIds} \cup {sessionKey})

\* the TTL blacklistAccessToken gives the entry: remainingTtl || this.blacklistTtl
\* (the optional argument is <<>> when left out, else <<seconds>>)
BlacklistEntryTtl(remainingTtl) ==
    IF remainingTtl \in {<<>>, <<0>>} THEN cfg.blacklistTtl ELSE remainingTtl[1]

\* RedisService.blacklistAccessToken
blacklistAccessToken(db, tokenId, remainingTtl) ==
    SetEx(db, buildKey(<<BLACKLIST, tokenId>>), BlacklistEntryTtl(remainingTtl), "1")

\* RedisService.isAccessTokenBlacklisted
isAccessTokenBlacklisted(db, tokenId) == Exists(db, buildKey(<<BLACKLIST, tokenId>>)) = 1

\* RedisService.getUserSessions: the metadata it collects, by the member of the
\* session set each was found under
getUserSessions(db, userId) ==
    LET tokenIds == SMembers(db, buildKey(<<USER_SESSIONS, userId>>))
        found == {t \in tokenIds : validateRefreshToken(db, userId, t) # Null}
    IN  [t \in found |-> validateRefreshToken(db, userId, t)]

\* RedisService.countUserSessions
countUserSessions(db, userId) == SCard(db, buildKey(<<USER_SESSIONS, userId>>))

\* the callers of RedisService: each action is one method call, answered
UserIds == {NewUserId(r.email) : r \in RegisterRequests}
Metadata == [deviceInfo |-> "ua", ip |-> "10.0.0.1"]
RemainingTtls == {<<>>} \cup {<<n>> : n \in 0..MaxTtl}

StoreRefreshToken(userId, tokenId) ==
    /\ redis' = storeRefreshToken(redis, userId, tokenId, Metadata)
    /\ last' = [op |-> "storeRefreshToken", args |-> [userId |-> userId, tokenId |-> tokenId]]
    /\ UNCHANGED <<now, cfg, calls, workerVars, deadline, revoked>>

ValidateRefreshToken(userId, tokenId) ==
    /\ last' = [op |-> "validateRefreshToken", args |-> [userId |-> userId, tokenId |-> tokenId],
                result |-> validateRefreshToken(redis, userId, tokenId)]
    /\ UNCHANGED <<now, cfg, calls, workerVars, gatewayVars>>

RevokeRefreshToken(userId, tokenId) ==
    /\ redis' = revokeRefreshToken(redis, userId, tokenId)
    /\ last' = [op |-> "revokeRefreshToken", args |-> [userId |-> userId, tokenId |-> tokenId]]
    /\ UNCHANGED <<now, cfg, calls, workerVars, deadline, revoked>>

RevokeAllUserTokens(userId) ==
    /\ redis' = revokeAllUserTokens(redis, userId)
    /\ last' = [op |-> "revokeAllUserTokens", args |-> [userId |-> userId],
                result |-> SCard(redis, buildKey(<<USER_SESSIONS, userId>>))]
    /\ UNCHANGED <<now, cfg, calls, workerVars, deadline, revoked>>

BlacklistAccessToken(tokenId, remainingTtl) ==
    /\ redis' = blacklistAccessToken(redis, tokenId, remainingTtl)
    /\ deadline' = [deadline EXCEPT ![tokenId] = now + BlacklistEntryTtl(remainingTtl)]
    /\ last' = [op |-> "blacklistAccessToken",
                args |-> [tokenId |-> tokenId, remainingTtl |-> remainingTtl]]
    /\ UNCHANGED <<now, cfg, calls, workerVars, revoked>>

IsAccessTokenBlacklisted(tokenId) ==
    /\ last' = [op |-> "isAccessTokenBlacklisted", args |-> [tokenId |-> tokenId],
                result |-> isAccessTokenBlacklisted(redis, tokenId)]
    /\ UNCHANGED <<now, cfg, calls, workerVars, gatewayVars>>

GetUserSessions(userId) ==
    /\ last' = [op |-> "getUserSessions", args |-> [userId |-> userId],
                result |-> getUserSessions(redis, userId)]
    /\ UNCHANGED <<now, cfg, calls, workerVars, gatewayVars>>

CountUserSessions(userId) ==
    /\ last' = [op |-> "countUserSessions", args |-> [userId |-> userId],
                result |-> countUserSessions(redis, userId)]
    /\ UNCHANGED <<now, cfg, calls, workerVars, gatewayVars>>

\* ---- the same methods one Redis command at a time, for requests that are
\* served side by side (each await gives way to the other requests)
\* storeRefreshToken: SETEX
StoreSetEx(c, userId, tokenId) ==
    /\ c \notin DOMAIN calls
    /\ redis' = SetEx(redis, buildKey(<<REFRESH_TOKEN, userId, tokenId>>), cfg.refreshTokenTtl,
                      TokenMetadata(userId, Metadata))
    /\ calls' = Proceed(c, [op |-> "storeRefreshToken", userId |-> userId,
                            tokenId |-> tokenId, pc |-> "sadd"])
    /\ last' = Idle
    /\ UNCHANGED <<now, cfg, workerVars, deadline, revoked>>

\* storeRefreshToken, addUserSession: SADD
StoreSAdd(c) ==
    /\ c \in DOMAIN calls
    /\ calls[c].op = "storeRefreshToken" /\ calls[c].pc = "sadd"
    /\ redis' = SAdd(redis, buildKey(<<USER_SESSIONS, calls[c].userId>>), calls[c].tokenId)
    /\ calls' = Proceed(c, [calls[c] EXCEPT !.pc = "expire"])
    /\ last' = Idle
    /\ UNCHANGED <<now, cfg, workerVars, deadline, revoked>>

\* storeRefreshToken, addUserSession: EXPIRE, and the return
StoreExpire(c) ==
    /\ c \in DOMAIN calls
    /\ calls[c].op = "storeRefreshToken" /\ calls[c].pc = "expire"
    /\ redis' = Expire(redis, buildKey(<<USER_SESSIONS, calls[c].userId>>), cfg.refreshTokenTtl)
    /\ calls' = Return(c)
    /\ last' = [op |-> "storeRefreshToken",
                args |-> [userId |-> calls[c].userId, tokenId |-> calls[c].tokenId]]
    /\ UNCHANGED <<now, cfg, workerVars, deadline, revoked>>

\* revokeRefreshToken: DEL
RevokeDel(c, userId, tokenId) ==
    /\ c \notin DOMAIN calls
    /\ redis' = Del(redis, {buildKey(<<REFRESH_TOKEN, userId, tokenId>>)})
    /\ calls' = Proceed(c, [op |-> "revokeRefreshToken", userId |-> userId,
                            tokenId |-> tokenId, pc |-> "srem"])
    /\ last' = Idle
    /\ UNCHANGED <<now, cfg, workerVars, deadline, revoked>>

\* revokeRefreshToken, removeUserSession: SREM, and the return
RevokeSRem(c) ==
    /\ c \in DOMAIN calls
    /\ calls[c].op = "revokeRefreshToken" /\ calls[c].pc = "srem"
    /\ redis' = SRem(redis, buildKey(<<USER_SESSIONS, calls[c].userId>>), calls[c].tokenId)
    /\ calls' = Return(c)
    /\ last' = [op |-> "revokeRefreshToken",
                args |-> [userId |-> calls[c].userId, tokenId |-> calls[c].tokenId]]
    /\ UNCHANGED <<now, cfg, workerVars, deadline, revoked>>

\* revokeAllUserTokens: SMEMBERS, and the return of 0 for an empty answer
RevokeAllSMembers(c, userId) ==
    LET tokenIds == SMembers(redis, buildKey(<<USER_SESSIONS, userId>>))
    IN  /\ c \notin DOMAIN calls
        /\ IF Cardinality(tokenIds) = 0
           THEN /\ calls' = calls
                /\ last' = [op |-> "revokeAllUserTokens", args |-> [userId |-> userId],
                            result |-> 0]
           ELSE /\ calls' = Proceed(c, [op |-> "revokeAllUserTokens", userId |-> userId,
                                        tokenIds |-> tokenIds, pc |-> "exec"])
                /\ last' = Idle
        /\ UNCHANGED <<now, cfg, workerVars, gatewayVars>>

\* revokeAllUserTokens: pipeline.exec() of the DEL commands (the batch is
\* taken to run without a command of another request in between), and the
\* return
RevokeAllExec(c) ==
    /\ c \in DOMAIN calls
    /\ calls[c].op = "revokeAllUserTokens" /\ calls[c].pc = "exec"
    /\ redis' = Del(redis, {buildKey(<<REFRESH_TOKEN, calls[c].userId, t>>) :
                               t \in calls[c].tokenIds}
                           \cup {buildKey(<<USER_SESSIONS, calls[c].userId>>)})
    /\ calls' = Return(c)
    /\ last' = [op |-> "revokeAllUserTokens", args |-> [userId |-> calls[c].userId],
                result |-> Cardinality(calls[c].tokenIds)]
    /\ UNCHANGED <<now, cfg, workerVars, deadline, revoked>>

\* ------------------------------------------------------------ JwtStrategy
\* passport-jwt with the strategy's options (algorithms: ['HS256'],
\* ignoreExpiration: false): "" when the token verifies, else the error name
JwtVerify(token, secret) ==
    IF token.alg # "HS256" THEN "JsonWebTokenError"
    ELSE IF token.key # secret THEN "JsonWebTokenError"
    ELSE IF "exp" \in DOMAIN token.claims /\ now >= token.claims.exp THEN "TokenExpiredError"
    ELSE ""

NoRequestUser == [id |-> "", tokenId |-> ""]

\* JwtStrategy.validate: the RequestUser, or the UnauthorizedException it throws
JwtStrategyValidate(db, token) ==
    IF Claim(token, "sub") = "" \/ Claim(token, "jti") = ""
    THEN [error |-> "Invalid token payload", user |-> NoRequestUser]
    ELSE IF isAccessTokenBlacklisted(db, Claim(token, "jti"))
    THEN [error |-> "Token has been revoked", user |-> NoRequestUser]
    ELSE [error |-> "",
          user |-> [id |-> Claim(token, "sub"), tokenId |-> Claim(token, "jti"),
                    email |-> Claim(token, "email"), username |-> Claim(token, "username"),
                    fullName |-> Claim(token, "fullName"), roleId |-> Claim(token, "roleId"),
                    roleName |-> Claim(token, "roleName"), roleCode |-> Claim(token, "roleCode"),
                    permissions |-> IF "permissions" \in DOMAIN token.claims
                                    THEN token.claims.permissions ELSE {}]]

\* JwtAuthGuard on a route that is not public: request.user, or the 401 of
\* handleRequest with the message getErrorMessage picks
JwtAuthGuard(db, token) ==
    LET info == JwtVerify(token, cfg.jwtSecret)
        v == JwtStrategyValidate(db, token)
    IN  IF info = "TokenExpiredError"
        THEN [status |-> 401, message |-> "Token has expired", user |-> NoRequestUser]
        ELSE IF info = "JsonWebTokenError"
        THEN [status |-> 401, message |-> "Invalid token", user |-> NoRequestUser]
        ELSE IF v.error # ""
        THEN [status |-> 401, message |-> "Unauthorized access", user |-> NoRequestUser]
        ELSE [status |-> 200, message |-> "", user |-> v.user]

\* ----------------------------------------------------------- TokenService
\* TokenService.logout: the keyspace it leaves (refreshTokenId is "" when the
\* body carries none)
logout(db, user, refreshTokenId) ==
    LET db1 == blacklistAccessToken(db, user.tokenId, <<>>)
    IN  IF refreshTokenId # "" THEN revokeRefreshToken(db1, user.id, refreshTokenId) ELSE db1

\* TokenService.logoutAll: the keyspace it leaves
logoutAll(db, user) ==
    revokeAllUserTokens(blacklistAccessToken(db, user.tokenId, <<>>), user.id)

\* ------------------------------------------------------- AuthController
\* signed 32-bit arithmetic, as the bitwise operators of JavaScript leave it
MinInt32 == -2147483647 - 1

\* hash << 5
Shl5(h) ==
    LET low == h % 134217728
    IN  IF low >= 67108864 THEN (low - 134217728) * 32 ELSE low * 32

\* (x + y) & (x + y)
Add32(x, y) ==
    IF x >= 0 /\ y > 2147483647 - x THEN (x - 2147483647) + (y - 2147483647) - 2
    ELSE IF x < 0 /\ y < MinInt32 - x THEN (x + 2147483647) + (y + 2147483647) + 2
    ELSE x + y

\* (x - y) & (x - y)
Sub32(x, y) == IF y = MinInt32 THEN Add32(x, y) ELSE Add32(x, -y)

\* the characters of a token string, as far as tokens differ: one for the
\* subject, one for iat, one for exp
TokenChars(token) ==
    <<IF Claim(token, "sub") = "id-a@x" THEN 97 ELSE 98,
      48 + token.claims.iat, 48 + token.claims.exp>>

\* the loop of AuthController.hashToken
RECURSIVE hashLoop(_, _)
hashLoop(hash, chars) ==
    IF chars = <<>> THEN hash
    ELSE hashLoop(Add32(Sub32(Shl5(hash), hash), Head(chars)), Tail(chars))

\* AuthController.hashToken: Math.abs(hash) written out
hashToken(token) ==
    LET hash == hashLoop(0, TokenChars(token))
    IN  IF hash = MinInt32 THEN "2147483648"
        ELSE ToString(IF hash < 0 THEN -hash ELSE hash)

\* JwtRefreshStrategy.validate: the ValidatedRefreshToken, or the
\* UnauthorizedException it throws
JwtRefreshStrategyValidate(db, token) ==
    IF Claim(token, "type") # "refresh"
    THEN [error |-> "Invalid token type", userId |-> "", tokenId |-> ""]
    ELSE IF validateRefreshToken(db, Claim(token, "sub"), Claim(token, "jti")) = Null
    THEN [error |-> "Refresh token has been revoked", userId |-> "", tokenId |-> ""]
    ELSE [error |-> "", userId |-> Claim(token, "sub"), tokenId |-> Claim(token, "jti")]

\* JwtRefreshGuard: the status it lets the request through with, or 401
JwtRefreshGuard(db, token) ==
    IF JwtVerify(token, cfg.jwtSecret) # "" THEN [status |-> 401, message |-> "Unauthorized"]
    ELSE IF JwtRefreshStrategyValidate(db, token).error # ""
    THEN [status |-> 401, message |-> JwtRefreshStrategyValidate(db, token).error]
    ELSE [status |-> 200, message |-> ""]

\* ------------------------------------------------------- AuthGrpcService
\* the HttpStatus of statusMap[code]; 0 for a code the table has no entry for
statusMap(code) ==
    CASE code = 0 -> 200
      [] code \in {1, 2, 13, 15} -> 500
      [] code \in {3, 9, 11} -> 400
      [] code = 4 -> 504
      [] code = 5 -> 404
      [] code \in {6, 10} -> 409
      [] code = 7 -> 403
      [] code = 8 -> 429
      [] code = 12 -> 501
      [] code = 14 -> 503
      [] code = 16 -> 401
      [] OTHER -> 0

\* the error a failed call rejects with: a ServiceError with its status code,
\* or an error without a code property (<<>>), such as the TimeoutError of
\* rxjs and a Nest HttpException
ServiceError(code) == [code |-> <<code>>, status |-> 0]
TimeoutError == [code |-> <<>>, status |-> 0]
HttpException(status) == [code |-> <<>>, status |-> status]

\* AuthGrpcService.handleGrpcError: the HttpException it throws,
\* statusMap[grpcError.code ?? 13] || INTERNAL_SERVER_ERROR
handleGrpcError(error) ==
    LET code == IF error.code = <<>> THEN 13 ELSE error.code[1]
    IN  HttpException(IF statusMap(code) = 0 THEN 500 ELSE statusMap(code))

\* AuthGrpcService.register / login / refreshToken on a call that failed: the
\* catchError operator hands the error to handleGrpcError, and the catch block
\* around the await hands what that threw to handleGrpcError again
AuthGrpcServiceCall(error) == handleGrpcError(handleGrpcError(error))

\* the HTTP status of a route whose worker call answered authErr
HttpStatusOf(authErr, success) ==
    IF authErr = NoError THEN success
    ELSE AuthGrpcServiceCall(ServiceError(mapDomainErrorToGRPC(authErr))).status

\* POST /auth/register: the worker's Register; the reply carries the user and
\* no token
PostRegister(args) ==
    /\ users' = IF RegisterPersists(args, "none") THEN CreateUser(args) ELSE users
    /\ last' = [op |-> "register", args |-> args, err |-> RegisterAnswer(args, "none").err,
                grpc |-> RegisterAnswer(args, "none").status,
                http |-> HttpStatusOf(RegisterAnswer(args, "none").err, 201),
                user |-> RegisterAnswer(args, "none").user]
    /\ UNCHANGED <<now, cfg, calls, permissions, lastLoginJobs, gatewayVars>>

\* POST /auth/login: the worker's Login, then the session of the refresh token
PostLogin(identifier, password) ==
    \E r \in LoginAnswers([identifier |-> identifier, password |-> password], "none") :
        /\ last' = [f \in DOMAIN r \cup {"grpc", "http"} |->
                        CASE f = "op" -> "login"
                          [] f = "grpc" -> r.status
                          [] f = "http" -> HttpStatusOf(r.err, 200)
                          [] OTHER -> r[f]]
        /\ lastLoginJobs' = IF r.dispatch THEN lastLoginJobs \cup {r.user.id} ELSE lastLoginJobs
        /\ redis' = IF r.err = NoError /\ r.refreshToken # NoToken
                    THEN storeRefreshToken(redis, r.user.id, hashToken(r.refreshToken), Metadata)
                    ELSE redis
        /\ UNCHANGED <<now, cfg, calls, users, permissions, deadline, revoked>>

\* POST /auth/refresh: JwtRefreshGuard, then the worker's RefreshToken
PostRefresh(token) ==
    LET g == JwtRefreshGuard(redis, token)
        r == RefreshAccessToken(token, "none")
        ok == g.status = 200 /\ r.err = NoError
    IN  /\ last' = [op |-> "refresh", args |-> [refreshToken |-> token],
                    issued |-> IF token = Wallet.refreshToken
                               THEN [by |-> Wallet.by, grants |-> Wallet.grants]
                               ELSE [by |-> "", grants |-> {}],
                    grpc |-> IF g.status # 200 THEN codes.OK ELSE mapDomainErrorToGRPC(r.err),
                    status |-> IF g.status # 200 THEN g.status ELSE HttpStatusOf(r.err, 200),
                    http |-> IF g.status # 200 THEN g.status ELSE HttpStatusOf(r.err, 200),
                    message |-> IF g.status # 200 THEN g.message ELSE r.err.message,
                    accessToken |-> IF ok THEN r.accessToken ELSE NoToken,
                    refreshToken |-> IF ok THEN token ELSE NoToken,
                    grants |-> IF ok THEN permissions[users[Claim(token, "sub")].roleId] ELSE {}]
        /\ UNCHANGED <<now, cfg, calls, workerVars, gatewayVars>>

\* the access tokens clients of the gateway bear: one per token id, issued at
\* the start with the configured lifetime
Bearer == [j1 |-> "id-a@x", j2 |-> "id-b@x"]
BearerToken(j) ==
    SignedString(cfg.jwtSecret,
                 [sub |-> Bearer[j], jti |-> j, iat |-> 0, exp |-> cfg.accessExpiration])

\* a request to a protected route (GET /auth/me)
Authenticate(token) ==
    /\ last' = [op |-> "authenticate", args |-> [accessToken |-> token],
                accessToken |-> Wallet.accessToken, refreshToken |-> Wallet.refreshToken,
                by |-> Wallet.by, grants |-> Wallet.grants,
                issued |-> IF token = Wallet.accessToken
                           THEN [by |-> Wallet.by, grants |-> Wallet.grants]
                           ELSE [by |-> "", grants |-> {}],
                reply |-> JwtAuthGuard(redis, token)]
    /\ UNCHANGED <<now, cfg, calls, workerVars, gatewayVars>>

\* POST /auth/logout
Logout(token, refreshTokenId) ==
    LET g == JwtAuthGuard(redis, token)
    IN  /\ last' = [op |-> "logout", args |-> [accessToken |-> token,
                                                refreshTokenId |-> refreshTokenId],
                    accessToken |-> Wallet.accessToken, refreshToken |-> Wallet.refreshToken,
                    by |-> Wallet.by, grants |-> Wallet.grants,
                    reply |-> IF g.status = 200
                              THEN [status |-> 200, message |-> "Logged out successfully"]
                              ELSE [status |-> g.status, message |-> g.message]]
        /\ redis' = IF g.status = 200 THEN logout(redis, g.user, refreshTokenId) ELSE redis
        /\ deadline' = IF g.status = 200
                       THEN [deadline EXCEPT ![g.user.tokenId] = now + BlacklistEntryTtl(<<>>)]
                       ELSE deadline
        /\ UNCHANGED <<now, cfg, calls, workerVars, revoked>>

\* POST /auth/logout-all
LogoutAll(token) ==
    LET g == JwtAuthGuard(redis, token)
    IN  /\ last' = [op |-> "logoutAll", args |-> [accessToken |-> token],
                    accessToken |-> Wallet.accessToken, refreshToken |-> Wallet.refreshToken,
                    by |-> Wallet.by, grants |-> Wallet.grants,
                    reply |-> IF g.status = 200
                              THEN [status |-> 200, message |-> "Logged out from all devices",
                                    revokedSessions |->
                                        SCard(redis, buildKey(<<USER_SESSIONS, g.user.id>>))]
                              ELSE [status |-> g.status, message |-> g.message,
                                    revokedSessions |-> 0]]
        /\ redis' = IF g.status = 200 THEN logoutAll(redis, g.user) ELSE redis
        /\ deadline' = IF g.status = 200
                       THEN [deadline EXCEPT ![g.user.tokenId] = now + BlacklistEntryTtl(<<>>)]
                       ELSE deadline
        /\ revoked' = IF g.status = 200 /\ Wallet.refreshToken # NoToken
                            /\ Claim(Wallet.refreshToken, "sub") = g.user.id
                      THEN revoked \cup {Wallet.refreshToken}
                      ELSE revoked
        /\ UNCHANGED <<now, cfg, calls, workerVars>>

\* ------------------------------------------------------------ specifications
AccessSecret == "k_access"
RefreshSecret == "k_refresh"

Configs ==
    [accessSecret : {AccessSecret}, refreshSecret : {RefreshSecret}, jwtSecret : {AccessSecret},
     accessExpiration : Ttls, refreshExpiration : {MaxTtl},
     blacklistTtl : Ttls, refreshTokenTtl : {MaxTtl}]

\* both services just started, with one of the configurations in C
InitWith(C) ==
    /\ now = 0
    /\ cfg \in C
    /\ calls = <<>>
    /\ users = <<>>
    /\ permissions = [r \in RoleIds |-> Grants]
    /\ lastLoginJobs = {}
    /\ redis = <<>>
    /\ deadline = [t \in TokenIds |-> -1]
    /\ revoked = {}
    /\ last = [op |-> "idle", accessToken |-> NoToken, refreshToken |-> NoToken,
               by |-> "", grants |-> {}]

Init == InitWith({c \in Configs : c.blacklistTtl = MaxTtl /\ c.accessExpiration = 1})

\* the worker's RPCs, each with one of the collaborator failures in F, and the
\* steps of its environment
WorkerNext(F) ==
    \/ \E r \in RegisterRequests, f \in RegisterFaults \cap F : Register(r, f)
    \/ \E i \in Identifiers, p \in Passwords, f \in LoginFaults \cap F : Login(i, p, f)
    \/ \E id \in lastLoginJobs, ok \in BOOLEAN : UpdateLastLogin(id, ok)
    \/ \E t \in Presentable, f \in ValidateFaults \cap F : ValidateToken(t, f)
    \/ \E t \in Presentable, f \in RefreshFaults \cap F : RefreshToken(t, f)
    \/ \E id \in DOMAIN users, a \in BOOLEAN : SetActive(id, a)
    \/ \E g \in SUBSET Grants : SetGrants(GetDefaultRole, g)
    \/ Tick

\* the worker when every collaborator call succeeds
Next == WorkerNext({"none"})

Spec == Init /\ [][Next]_vars

\* the worker with collaborator failures
FaultNext == WorkerNext(RegisterFaults \cup LoginFaults \cup ValidateFaults \cup RefreshFaults)

FaultSpec == Init /\ [][FaultNext]_vars

\* the refresh-token entries and session sets of the Session Registry under
\* the calls of its users
SessionNext ==
    \/ \E u \in UserIds, t \in TokenIds : StoreRefreshToken(u, t)
    \/ \E u \in UserIds, t \in TokenIds : ValidateRefreshToken(u, t)
    \/ \E u \in UserIds, t \in TokenIds : RevokeRefreshToken(u, t)
    \/ \E u \in UserIds : RevokeAllUserTokens(u)
    \/ \E u \in UserIds : GetUserSessions(u)
    \/ \E u \in UserIds : CountUserSessions(u)
    \/ Tick

SessionSpec == Init /\ [][SessionNext]_vars

\* the writers of the Session Registry: refresh-token entries, session sets
\* and blacklist entries side by side
RegistryNext ==
    \/ \E u \in UserIds, t \in TokenIds : StoreRefreshToken(u, t)
    \/ \E u \in UserIds, t \in TokenIds : RevokeRefreshToken(u, t)
    \/ \E u \in UserIds : RevokeAllUserTokens(u)
    \/ \E t \in TokenIds : BlacklistAccessToken(t, <<>>)
    \/ Tick

RegistrySpec == Init /\ [][RegistryNext]_vars

\* store, revoke and revoke-all of two requests, their Redis commands
\* interleaved
InterleaveNext ==
    \/ \E c \in Callers, u \in UserIds, t \in TokenIds : StoreSetEx(c, u, t)
    \/ \E c \in Callers : StoreSAdd(c)
    \/ \E c \in Callers : StoreExpire(c)
    \/ \E c \in Callers, u \in UserIds, t \in TokenIds : RevokeDel(c, u, t)
    \/ \E c \in Callers : RevokeSRem(c)
    \/ \E c \in Callers, u \in UserIds : RevokeAllSMembers(c, u)
    \/ \E c \in Callers : RevokeAllExec(c)

InterleaveSpec == Init /\ [][InterleaveNext]_vars

\* the access-token blacklist of the Session Registry, under every blacklist TTL
BlacklistNext ==
    \/ \E t \in TokenIds, ttl \in RemainingTtls : BlacklistAccessToken(t, ttl)
    \/ \E t \in TokenIds : IsAccessTokenBlacklisted(t)
    \/ Tick

BlacklistSpec == InitWith({c \in Configs : c.accessExpiration = 1}) /\ [][BlacklistNext]_vars

\* logout at the gateway, under every access-token lifetime and blacklist TTL
LogoutNext ==
    \/ \E j \in TokenIds : Authenticate(BearerToken(j))
    \/ \E j \in TokenIds, r \in {""} \cup TokenIds : Logout(BearerToken(j), r)
    \/ \E j \in TokenIds : LogoutAll(BearerToken(j))
    \/ \E j \in TokenIds : StoreRefreshToken(Bearer[j], j)
    \/ Tick

LogoutSpec == InitWith(Configs) /\ [][LogoutNext]_vars

\* the gateway's login, refresh and logout-all in front of the worker, and the
\* worker's RefreshToken RPC, for one user
SystemRequests == {r \in RegisterRequests : r.email = "a@x"}

SystemNext ==
    \/ \E r \in SystemRequests : PostRegister(r)
    \/ \E r \in SystemRequests, p \in Passwords : PostLogin(r.email, p)
    \/ \E id \in lastLoginJobs, ok \in BOOLEAN : UpdateLastLogin(id, ok)
    \/ \E t \in Presentable : PostRefresh(t)
    \/ \E t \in Presentable : RefreshToken(t, "none")
    \/ \E j \in TokenIds : LogoutAll(BearerToken(j))
    \/ Tick

SystemSpec == Init /\ [][SystemNext]_vars

\* the worker's Register and RefreshToken RPCs while an administrator changes
\* roles, deactivates and deletes accounts
RefreshNext ==
    \/ \E r \in RegisterRequests : Register(r, "none")
    \/ \E t \in Presentable, f \in RefreshFaults : RefreshToken(t, f)
    \/ \E id \in DOMAIN users, a \in BOOLEAN : SetActive(id, a)
    \/ \E id \in DOMAIN users, r \in RoleIds : SetRole(id, r)
    \/ \E id \in DOMAIN users : DeleteUser(id)
    \/ Tick

RefreshSpec == Init /\ [][RefreshNext]_vars

\* the worker's Register and ValidateToken RPCs, with the failures of the
\* lookups, while an administrator edits grants and deletes accounts
ValidateNext ==
    \/ \E r \in RegisterRequests : Register(r, "none")
    \/ \E t \in Presentable, f \in ValidateFaults : ValidateToken(t, f)
    \/ \E g \in SUBSET Grants : SetGrants(GetDefaultRole, g)
    \/ \E id \in DOMAIN users : DeleteUser(id)
    \/ Tick

ValidateSpec == Init /\ [][ValidateNext]_vars

\* Register calls of two callers, their repository calls interleaved
RaceNext ==
    \/ \E c \in Callers, r \in RegisterRequests : RegisterExistsByEmail(c, r)
    \/ \E c \in Callers : RegisterExistsByUsername(c)
    \/ \E c \in Callers : RegisterCreateUser(c)

RaceSpec == Init /\ [][RaceNext]_vars

\* Register and Login with their collaborator failures, the last-login
\* updates Login starts, and deactivation
AccountNext ==
    \/ \E r \in RegisterRequests, f \in RegisterFaults : Register(r, f)
    \/ \E i \in Identifiers, p \in Passwords, f \in LoginFaults : Login(i, p, f)
    \/ \E id \in lastLoginJobs, ok \in BOOLEAN : UpdateLastLogin(id, ok)
    \/ \E id \in DOMAIN users, a \in BOOLEAN : SetActive(id, a)
    \/ Tick

AccountSpec == Init /\ [][AccountNext]_vars

\* Config.Validate of the worker: both secrets are required, nothing else is
\* asked of them
ConfigValidate(c) == c.accessSecret # "" /\ c.refreshSecret # ""

\* the configurations an operator can write: the two worker secrets and the
\* gateway's jwt.secret are set independently of one another
Secrets == {"", AccessSecret, RefreshSecret}
StartupConfigs ==
    [accessSecret : Secrets, refreshSecret : Secrets, jwtSecret : Secrets \ {""},
     accessExpiration : {1}, refreshExpiration : {MaxTtl},
     blacklistTtl : {MaxTtl}, refreshTokenTtl : {MaxTtl}]

\* the gateway's public and protected routes in front of the worker, and the
\* worker's own ValidateToken and RefreshToken RPCs, for one user and every
\* configuration the worker starts with
EdgeNext ==
    \/ \E r \in SystemRequests : PostRegister(r)
    \/ \E r \in SystemRequests, p \in Passwords : PostLogin(r.email, p)
    \/ \E id \in lastLoginJobs, ok \in BOOLEAN : UpdateLastLogin(id, ok)
    \/ \E t \in Presentable : Authenticate(t)
    \/ \E t \in Presentable : PostRefresh(t)
    \/ \E t \in Presentable : ValidateToken(t, "none")
    \/ \E t \in Presentable : RefreshToken(t, "none")
    \/ Tick

EdgeSpec == InitWith({c \in StartupConfigs : ConfigValidate(c)}) /\ [][EdgeNext]_vars

\* a call of the gateway to the worker that fails in transport: the worker is
\* down, the deadline passes, the 10 s timeout of the client fires
TransportFailures == {ServiceError(codes.Unavailable), ServiceError(codes.DeadlineExceeded),
                      ServiceError(codes.InvalidArgument), TimeoutError}

GrpcFailure(rpc, error) ==
    /\ last' = [op |-> rpc, args |-> [error |-> error],
                err |-> NewAuthError("transport", "", ""), user |-> NoUser,
                grpc |-> IF error.code = <<>> THEN -1 ELSE error.code[1],
                http |-> AuthGrpcServiceCall(error).status]
    /\ UNCHANGED <<now, cfg, calls, workerVars, gatewayVars>>

\* register, login and refresh at the gateway, with the failures of the
\* worker and of the transport
HttpNext ==
    \/ \E r \in SystemRequests : PostRegister(r)
    \/ \E i \in Identifiers, p \in Passwords : PostLogin(i, p)
    \/ \E id \in lastLoginJobs, ok \in BOOLEAN : UpdateLastLogin(id, ok)
    \/ \E t \in Presentable : PostRefresh(t)
    \/ \E rpc \in {"register", "login", "refresh"}, e \in TransportFailures :
            GrpcFailure(rpc, e)
    \/ Tick

HttpSpec == Init /\ [][HttpNext]_vars

\* ------------------------------------------------------- Permission Evaluator
\* A permission string is the sequence of its parts, ":" being the separator
\* character: "users:READ" is <<"users", ":", "READ">>.
Undefined == <<"undefined">>

\* an array that is undefined, and a request that carries no user
UndefinedArray == <<Undefined>>
NoUserPayload == [id |-> "", permissions |-> UndefinedArray]

\* the Resource and Action enums (those the routes use) and the wildcard
Resources == {"users", "roles"}
Actions == {"READ", "CREATE", "UPDATE", "DELETE", "IMPORT"}

\* `${resource}:${action}`
buildPermissionString(resource, action) == <<resource, ":", action>>

\* String.prototype.split(':'): the segments between the separators
RECURSIVE split(_)
split(str) ==
    IF \A i \in 1..Len(str) : str[i] # ":" THEN <<str>>
    ELSE LET k == CHOOSE i \in 1..Len(str) :
                      str[i] = ":" /\ \A j \in 1..(i - 1) : str[j] # ":"
         IN  <<SubSeq(str, 1, k - 1)>> \o split(SubSeq(str, k + 1, Len(str)))

\* const [a, b] = array: an element the array lacks is undefined
Element(array, i) == IF i <= Len(array) THEN array[i] ELSE Undefined

\* a matcher that would know no wildcard
permissionMatches_ExactOnly(permission, requiredPermission) ==
    permission = requiredPermission

\* the callback of userPermissions.some(...)
permissionMatches(permission, requiredPermission) ==
    LET requiredResource == Element(split(requiredPermission), 1)
        requiredAction == Element(split(requiredPermission), 2)
        permResource == Element(split(permission), 1)
        permAction == Element(split(permission), 2)
    IN  IF permission = requiredPermission THEN TRUE
        ELSE IF permResource = <<"*">>
        THEN permAction = <<"*">> \/ permAction = requiredAction
        ELSE IF permResource = requiredResource /\ permAction = <<"*">> THEN TRUE
        ELSE FALSE

\* PermissionGuard.checkPermission
checkPermission(userPermissions, requiredPermission) ==
    IF userPermissions = UndefinedArray \/ Len(userPermissions) = 0 THEN FALSE
    ELSE \E i \in 1..Len(userPermissions) :
            permissionMatches(userPermissions[i], requiredPermission)

\* HTTP_METHOD_ACTION_MAP[method]; "" for a method it has no entry for
HTTP_METHOD_ACTION_MAP(method) ==
    CASE method = "GET" -> "READ"
      [] method = "POST" -> "CREATE"
      [] method = "PUT" -> "UPDATE"
      [] method = "PATCH" -> "UPDATE"
      [] method = "DELETE" -> "DELETE"
      [] OTHER -> ""

\* String.prototype.toUpperCase on the method names requests carry
toUpperCase(method) ==
    CASE method = "get" -> "GET"
      [] method = "post" -> "POST"
      [] OTHER -> method

\* a route as the Reflector resolves its metadata: "" where a key is not set
\* (@Public, @SetResource, @SetAction)
Routes == [isPublic : BOOLEAN, resource : {""} \cup Resources, action : {"", "IMPORT"}]

\* PermissionGuard.getRequiredAction
getRequiredAction(route, method) ==
    IF route.action # "" THEN route.action
    ELSE IF HTTP_METHOD_ACTION_MAP(toUpperCase(method)) = "" THEN "READ"
    ELSE HTTP_METHOD_ACTION_MAP(toUpperCase(method))

\* a guard that would look for the user before it looks for @Public
PermissionGuardCanActivate_UserFirst(route, user, method) ==
    IF user = NoUserPayload
    THEN [allowed |-> FALSE, status |-> 403, message |-> "User not authenticated",
          consulted |-> {}]
    ELSE [allowed |-> TRUE, status |-> 200, message |-> "", consulted |-> {}]

\* a guard that would evaluate permissions on routes that declare no resource
PermissionGuardCanActivate_AlwaysChecks(route, user, method) ==
    IF route.isPublic \/ user = NoUserPayload
    THEN [allowed |-> route.isPublic, status |-> IF route.isPublic THEN 200 ELSE 403,
          message |-> "", consulted |-> {}]
    ELSE [allowed |-> checkPermission(user.permissions,
                                      buildPermissionString(route.resource,
                                                            getRequiredAction(route, method))),
          status |-> 200, message |-> "", consulted |-> {"permissions"}]

\* PermissionGuard.canActivate: true, or the ForbiddenException it throws;
\* consulted names what of the request it read on the way
PermissionGuardCanActivate(route, user, method) ==
    IF route.isPublic
    THEN [allowed |-> TRUE, status |-> 200, message |-> "", consulted |-> {}]
    ELSE IF user = NoUserPayload
    THEN [allowed |-> FALSE, status |-> 403, message |-> "User not authenticated",
          consulted |-> {}]
    ELSE IF route.resource = ""
    THEN [allowed |-> TRUE, status |-> 200, message |-> "", consulted |-> {}]
    ELSE IF ~checkPermission(user.permissions,
                             buildPermissionString(route.resource,
                                                   getRequiredAction(route, method)))
    THEN [allowed |-> FALSE, status |-> 403, message |-> "Access denied",
          consulted |-> {"permissions"}]
    ELSE [allowed |-> TRUE, status |-> 200, message |-> "", consulted |-> {"permissions"}]

\* JwtAuthGuard.canActivate: true for a public route, else passport's verdict
JwtAuthGuardCanActivate(route, db, token) ==
    IF route.isPublic
    THEN [allowed |-> TRUE, status |-> 200, message |-> "", consulted |-> {}]
    ELSE [allowed |-> JwtAuthGuard(db, token).status = 200,
          status |-> JwtAuthGuard(db, token).status,
          message |-> JwtAuthGuard(db, token).message,
          consulted |-> {"token", "blacklist"}]

\* the permission lists and requests the guards are tried with
MaxPerms == 2
PermissionPool ==
    {buildPermissionString("users", a) : a \in {"READ", "CREATE", "*"}}
        \cup {buildPermissionString("*", a) : a \in {"READ", "*"}}
        \cup {buildPermissionString("roles", "READ"), <<"users">>}
PermissionLists == UNION {[1..n -> PermissionPool] : n \in 0..MaxPerms}
RequiredPermissions ==
    {buildPermissionString("users", "READ"), buildPermissionString("users", "CREATE"),
     buildPermissionString("roles", "READ")}
Methods == {"GET", "post", "PUT", "PATCH", "DELETE", "OPTIONS"}
RequestUsers ==
    {NoUserPayload} \cup
    {[id |-> "id-a@x", permissions |-> l] :
        l \in {UndefinedArray} \cup {q \in PermissionLists : Len(q) <= 1}}
GuardTokens == {NoToken} \cup {BearerToken(j) : j \in TokenIds}
                   \cup {[BearerToken(j) EXCEPT !.key = OtherSecret] : j \in TokenIds}

CheckPermission(userPermissions, requiredPermission) ==
    /\ last' = [op |-> "checkPermission",
                args |-> [userPermissions |-> userPermissions,
                          requiredPermission |-> requiredPermission],
                result |-> checkPermission(userPermissions, requiredPermission)]
    /\ UNCHANGED <<now, cfg, calls, workerVars, gatewayVars>>

CanActivateJwt(route, token) ==
    /\ last' = [op |-> "JwtAuthGuard.canActivate", args |-> [route |-> route, token |-> token],
                result |-> JwtAuthGuardCanActivate(route, redis, token)]
    /\ UNCHANGED <<now, cfg, calls, workerVars, gatewayVars>>

CanActivatePermission(route, user, method) ==
    /\ last' = [op |-> "PermissionGuard.canActivate",
                args |-> [route |-> route, user |-> user, method |-> method],
                result |-> PermissionGuardCanActivate(route, user, method)]
    /\ UNCHANGED <<now, cfg, calls, workerVars, gatewayVars>>

\* the two guards and the evaluator under the requests of clients, some of
\* whose access tokens are blacklisted
GuardNext ==
    \/ \E l \in {UndefinedArray} \cup PermissionLists, r \in RequiredPermissions :
            CheckPermission(l, r)
    \/ \E route \in Routes, t \in GuardTokens : CanActivateJwt(route, t)
    \/ \E route \in Routes, u \in RequestUsers, m \in Methods :
            CanActivatePermission(route, u, m)
    \/ BlacklistAccessToken("j1", <<>>)

GuardSpec == Init /\ [][GuardNext]_vars

\* ------------------------------------------------------------------ claims
NoTokens(r) == r.accessToken = NoToken /\ r.refreshToken = NoToken

\* C1: Login with an identifier of an active user answers, when the password is
\* that user's, an access token and a refresh token whose sub is the user's
\* id, and, when it is not, IncorrectPassword with no token.
C1_LoginAnswersTheUser ==
    (last.op = "Login" /\ last.fault = "none") =>
        \A id \in FindByEmailOrUsername(last.args.identifier) :
            users[id].isActive =>
                IF CompareHashAndPassword(users[id].password, last.args.password)
                THEN /\ last.err = NoError
                     /\ Claim(last.accessToken, "sub") = id
                     /\ Claim(last.refreshToken, "sub") = id
                ELSE /\ last.err.err = ErrIncorrectPassword
                     /\ last.err.code = CodeIncorrectPassword
                     /\ NoTokens(last)

\* C2: Login with an identifier of a user whose isActive is false answers
\* UserInactive whatever the password, with no token and no last-login
\* update dispatched.
C2_InactiveUserNeverLogsIn ==
    (last.op = "Login" /\ last.fault = "none") =>
        \A id \in FindByEmailOrUsername(last.args.identifier) :
            ~users[id].isActive =>
                /\ last.err.err = ErrUserInactive
                /\ NoTokens(last)
                /\ ~last.dispatch

\* C3: a Register whose e-mail and user name are both absent from the store
\* (every collaborator call succeeding) succeeds, adds exactly one row, active
\* and with the default role, leaves the other rows alone, and answers a user
\* whose password field is empty.
C3_RegisterFresh ==
    [][(/\ last'.op = "Register"
        /\ last'.fault = "none"
        /\ ~ExistsByEmail(last'.args.email)
        /\ ~ExistsByUsername(last'.args.username))
       => /\ last'.err = NoError
          /\ \E id \in DOMAIN users' \ DOMAIN users :
               /\ DOMAIN users' = DOMAIN users \cup {id}
               /\ users'[id].isActive
               /\ users'[id].roleId = GetDefaultRole
               /\ users'[id].email = last'.args.email
               /\ users'[id].username = last'.args.username
               /\ last'.user.id = id
               /\ last'.user.roleId = GetDefaultRole
          /\ \A id \in DOMAIN users : users'[id] = users[id]
          /\ last'.user.password = ""]_vars

C3_Witness ==
    /\ last.op = "Register"
    /\ last.err = NoError
    /\ Cardinality(DOMAIN users) = 2
    /\ users[last.user.id].isActive
    /\ last.user.password = ""

\* C4: once a Register has stored a row, a Register that reuses the row's
\* e-mail or its user name answers UserAlreadyExists and leaves the store as
\* it was.  (Rows are only ever stored by Register and never removed.)
C4_RegisterDuplicate ==
    [][(/\ last'.op = "Register"
        /\ last'.fault = "none"
        /\ \E id \in DOMAIN users :
              \/ users[id].email = last'.args.email
              \/ users[id].username = last'.args.username)
       => /\ last'.err.code = CodeUserAlreadyExists
          /\ last'.err.err \in {ErrEmailAlreadyExists, ErrUsernameAlreadyExists}
          /\ NoTokens(last')
          /\ users' = users]_vars

C4_Witness ==
    /\ last.op = "Register"
    /\ last.err.err = ErrUsernameAlreadyExists
    /\ \A id \in DOMAIN users : users[id].email # last.args.email
    /\ \E id \in DOMAIN users : users[id].username = last.args.username

\* C5: ValidateToken always answers with gRPC status OK; for a token signed
\* with another secret it answers valid=false and the engine's error is
\* InvalidToken, for an expired token signed with the access secret it answers
\* valid=false and the engine's error is TokenExpired.
C5_ValidateTokenNeverFails ==
    last.op = "ValidateToken" =>
        LET t == last.args.accessToken
        IN  /\ last.response.status = "OK"
            /\ (t.alg = "HS256" /\ t.key # cfg.accessSecret) =>
                  /\ ~last.response.valid
                  /\ last.result.err.err = ErrInvalidToken
                  /\ last.result.err.code = CodeInvalidToken
            /\ (t.alg = "HS256" /\ t.key = cfg.accessSecret /\ t.claims.exp <= now) =>
                  /\ ~last.response.valid
                  /\ last.result.err.err = ErrTokenExpired
                  /\ last.result.err.code = CodeTokenExpired

C5_Witness ==
    /\ last.op = "ValidateToken"
    /\ last.args.accessToken.key = OtherSecret
    /\ last.args.accessToken.claims.exp <= now
    /\ ~last.response.valid
    /\ last.response.status = "OK"

\* C6: an access token issued by Login and validated before its expiry, while
\* the user's role grants what it granted at issuance (at least one grant),
\* is answered valid=true with the user's id and exactly those grants.
C6_LoginValidateRoundTrip ==
    (/\ last.op = "ValidateToken"
     /\ last.fault = "none"
     /\ last.issued.by = "Login"
     /\ now < last.args.accessToken.claims.exp
     /\ last.issued.grants # {}
     /\ Claim(last.args.accessToken, "sub") \in DOMAIN users
     /\ permissions[users[Claim(last.args.accessToken, "sub")].roleId] = last.issued.grants)
    => /\ last.result.err = NoError
       /\ last.result.valid
       /\ last.response.valid
       /\ last.result.userID = Claim(last.args.accessToken, "sub")
       /\ last.response.user.id = Claim(last.args.accessToken, "sub")
       /\ last.result.permissions = last.issued.grants
       /\ last.response.user.permissions # {}

C6_Witness ==
    /\ last.op = "ValidateToken"
    /\ last.issued.by = "Login"
    /\ last.issued.grants # {}
    /\ last.result.valid
    /\ last.result.permissions = last.issued.grants
    /\ users[last.result.userID].isActive

\* C7: a revokeAllUserTokens(userId) call leaves getUserSessions(userId) empty
\* and validateRefreshToken(userId, t) null for every t it was not null for
\* before, and changes no answer for another user; afterwards only a
\* storeRefreshToken(userId, t) makes validateRefreshToken(userId, t) answer
\* metadata again.
C7_RevokeAllUserTokens ==
    [][/\ last'.op = "revokeAllUserTokens" =>
            LET u == last'.args.userId
            IN  /\ DOMAIN getUserSessions(redis', u) = {}
                /\ \A t \in TokenIds :
                      validateRefreshToken(redis, u, t) # Null
                          => validateRefreshToken(redis', u, t) = Null
                /\ \A v \in UserIds \ {u} :
                      /\ getUserSessions(redis', v) = getUserSessions(redis, v)
                      /\ countUserSessions(redis', v) = countUserSessions(redis, v)
                      /\ \A t \in TokenIds :
                            validateRefreshToken(redis', v, t) = validateRefreshToken(redis, v, t)
       /\ \A u \in UserIds, t \in TokenIds :
            (validateRefreshToken(redis, u, t) = Null /\ validateRefreshToken(redis', u, t) # Null)
                => /\ last'.op = "storeRefreshToken"
                   /\ last'.args = [userId |-> u, tokenId |-> t]]_vars

C7_Witness ==
    /\ last.op = "revokeAllUserTokens"
    /\ last.result = 2
    /\ DOMAIN getUserSessions(redis, last.args.userId) = {}
    /\ \A t \in TokenIds : validateRefreshToken(redis, last.args.userId, t) = Null
    /\ \E v \in UserIds \ {last.args.userId} : DOMAIN getUserSessions(redis, v) # {}

\* C8: a refresh token a client held for a user when the user logged out of
\* all devices yields no access token afterwards, neither at POST
\* /auth/refresh nor at the worker's RefreshToken RPC.
C8_NoRefreshAfterLogoutAll ==
    (last.op \in {"refresh", "RefreshToken"} /\ last.args.refreshToken \in revoked)
        => last.accessToken = NoToken

\* C9: from a blacklistAccessToken(tokenId, ttl) call on,
\* isAccessTokenBlacklisted(tokenId) is true at every instant before the TTL
\* of the entry has elapsed and false at every instant from then on; the call
\* changes the answer for no other tokenId.
C9_BlacklistUntilTtlElapses ==
    [][/\ \A t \in TokenIds :
            deadline'[t] >= 0 => (isAccessTokenBlacklisted(redis', t) <=> now' < deadline'[t])
       /\ last'.op = "blacklistAccessToken" =>
            /\ last'.args.remainingTtl \notin {<<>>, <<0>>}
                  => deadline'[last'.args.tokenId] = now + last'.args.remainingTtl[1]
            /\ isAccessTokenBlacklisted(redis', last'.args.tokenId)
            /\ \A t \in TokenIds \ {last'.args.tokenId} :
                  isAccessTokenBlacklisted(redis', t) = isAccessTokenBlacklisted(redis, t)]_vars

C9_Witness ==
    \E t1, t2 \in TokenIds :
        /\ deadline[t1] >= 0
        /\ now >= deadline[t1]
        /\ ~isAccessTokenBlacklisted(redis, t1)
        /\ now < deadline[t2]
        /\ isAccessTokenBlacklisted(redis, t2)

\* C10: once logout or logout-all has blacklisted a caller's access token, the
\* TTL of the entry ends at the token's own expiry: JwtStrategy.validate
\* rejects the token at every instant before that expiry, and the entry is
\* gone from then on.
C10_LogoutBlacklistsForRemainingLifetime ==
    \A j \in TokenIds :
        deadline[j] >= 0 =>
            /\ now < BearerToken(j).claims.exp
                  => /\ JwtStrategyValidate(redis, BearerToken(j)).error = "Token has been revoked"
                     /\ redis[buildKey(<<BLACKLIST, j>>)].exp = BearerToken(j).claims.exp
            /\ now >= BearerToken(j).claims.exp => ~isAccessTokenBlacklisted(redis, j)

\* C11: while it has not expired and was not revoked, the access token of a
\* successful login at the gateway is let through JwtAuthGuard (the gateway
\* verifying with the secret the worker signed it with), and its refresh token
\* is let through JwtRefreshGuard on POST /auth/refresh.
C11_LoginTokensUsableAtGateway ==
    /\ (/\ last.op = "authenticate"
        /\ last.issued.by = "login"
        /\ cfg.jwtSecret = cfg.accessSecret
        /\ now < last.args.accessToken.claims.exp)
       => last.reply.status = 200
    /\ (/\ last.op = "refresh"
        /\ last.issued.by = "login"
        /\ cfg.jwtSecret = cfg.refreshSecret
        /\ now < last.args.refreshToken.claims.exp)
       => last.status = 200

\* C12: the access token of a successful Login carries a permissions claim,
\* and the permission set JwtStrategy.validate attaches to the request user
\* for that token is what the user's role granted when it was issued.
C12_AccessTokenCarriesGrants ==
    (last.op = "Login" /\ last.err = NoError) =>
        /\ "permissions" \in DOMAIN last.accessToken.claims
        /\ JwtStrategyValidate(redis, last.accessToken).user.permissions = last.grants

\* the RPCs that issue tokens
Issuing == {"Register", "Login", "RefreshToken"}

\* C13: every token issued by Register, Login or RefreshAccessToken carries a
\* token identity (jti), and the access token a call issues is not the access
\* token the call before it issued, also when both are issued to the same user
\* in the same second.
C13_TokenIdentitiesUnique ==
    [][(last'.op \in Issuing /\ last'.err = NoError) =>
          /\ Claim(last'.accessToken, "jti") # ""
          /\ last'.op = "Login" => Claim(last'.refreshToken, "jti") # ""
          /\ (last.op \in Issuing /\ last.err = NoError)
                => last'.accessToken # last.accessToken]_vars

\* the tokens the worker issues, told apart by their claims: access tokens
\* carry username and role, refresh tokens the registered claims only
IssuedAccessToken(t) ==
    t.alg = "HS256" /\ t.key = cfg.accessSecret /\ "username" \in DOMAIN t.claims
IssuedRefreshToken(t) ==
    t.alg = "HS256" /\ t.key = cfg.refreshSecret /\ "username" \notin DOMAIN t.claims

\* C14: under every configuration the worker starts with, ValidateAccessToken
\* and JwtAuthGuard reject every issued refresh token, and RefreshAccessToken
\* and JwtRefreshGuard reject every issued access token.
C14_NoTokenTypeConfusion ==
    /\ (last.op = "ValidateToken" /\ IssuedRefreshToken(last.args.accessToken))
          => ~last.result.valid /\ ~last.response.valid
    /\ (last.op = "authenticate" /\ IssuedRefreshToken(last.args.accessToken))
          => last.reply.status = 401
    /\ (last.op = "RefreshToken" /\ IssuedAccessToken(last.args.refreshToken))
          => last.err # NoError /\ last.accessToken = NoToken
    /\ (last.op = "refresh" /\ IssuedAccessToken(last.args.refreshToken))
          => last.status = 401

\* C15: after a successful POST /auth/login the reply carries an access token
\* and a refresh token and the Session Registry holds a session for that
\* refresh token with the requester's IP and user-agent; after a successful
\* POST /auth/register the reply carries both tokens too and the registry holds
\* a session of the new user.
C15_SessionAfterLoginOrRegister ==
    /\ (last.op = "login" /\ last.err = NoError) =>
          /\ last.accessToken # NoToken
          /\ last.refreshToken # NoToken
          /\ validateRefreshToken(redis, last.user.id, hashToken(last.refreshToken)) # Null
          /\ validateRefreshToken(redis, last.user.id, hashToken(last.refreshToken)).ip
                = Metadata.ip
          /\ validateRefreshToken(redis, last.user.id, hashToken(last.refreshToken)).deviceInfo
                = Metadata.deviceInfo
          /\ hashToken(last.refreshToken)
                \in SMembers(redis, buildKey(<<USER_SESSIONS, last.user.id>>))
    /\ (last.op = "register" /\ last.err = NoError) =>
          /\ "accessToken" \in DOMAIN last
          /\ "refreshToken" \in DOMAIN last
          /\ countUserSessions(redis, last.user.id) > 0

\* a grant of the form "r:a"
WellFormed(permission) == Len(permission) = 3 /\ permission[2] = ":"

\* the array in the opposite order
Reversed(array) == [i \in 1..Len(array) |-> array[Len(array) + 1 - i]]

\* C16: checkPermission(granted, "res:act") is true exactly when some granted
\* "r:a" has (r = res or r = *) and (a = act or a = *), hence false for an
\* empty or undefined list and for a grant of another action on the resource;
\* the list in the opposite order gives the same answer.
C16_CheckPermission ==
    last.op = "checkPermission" =>
        LET granted == last.args.userPermissions
            res == last.args.requiredPermission[1]
            act == last.args.requiredPermission[3]
        IN  /\ last.result <=>
                  /\ granted # UndefinedArray
                  /\ \E i \in 1..Len(granted) :
                        /\ WellFormed(granted[i])
                        /\ granted[i][1] \in {res, "*"}
                        /\ granted[i][3] \in {act, "*"}
            /\ granted # UndefinedArray =>
                  last.result = checkPermission(Reversed(granted), last.args.requiredPermission)

C16_Witness ==
    /\ last.op = "checkPermission"
    /\ last.args.requiredPermission = buildPermissionString("users", "READ")
    /\ last.args.userPermissions
          = <<buildPermissionString("users", "CREATE"), buildPermissionString("*", "READ")>>
    /\ last.result

\* C17: on a route marked public JwtAuthGuard and PermissionGuard let every
\* request through, and their answer is the same whatever token, blacklist
\* and user (with whatever permission list, or none) the request comes with.
C17_PublicRouteBypassesGuards ==
    /\ (last.op = "JwtAuthGuard.canActivate" /\ last.args.route.isPublic) =>
          /\ last.result.allowed
          /\ last.result.consulted = {}
          /\ \A t \in GuardTokens :
                /\ JwtAuthGuardCanActivate(last.args.route, redis, t) = last.result
                /\ JwtAuthGuardCanActivate(last.args.route, <<>>, t) = last.result
    /\ (last.op = "PermissionGuard.canActivate" /\ last.args.route.isPublic) =>
          /\ last.result.allowed
          /\ last.result.consulted = {}
          /\ \A u \in RequestUsers, m \in Methods :
                PermissionGuardCanActivate(last.args.route, u, m) = last.result

C17_Witness ==
    /\ last.op = "PermissionGuard.canActivate"
    /\ last.args.route.isPublic
    /\ last.args.route.resource = "users"
    /\ last.args.user = NoUserPayload
    /\ isAccessTokenBlacklisted(redis, "j1")
    /\ last.result.allowed

\* the permission a route with a declared resource requires of a request
Required(route, method) ==
    buildPermissionString(route.resource,
                          IF route.action # "" THEN route.action
                          ELSE CASE method \in {"GET", "get"} -> "READ"
                                 [] method \in {"POST", "post"} -> "CREATE"
                                 [] method \in {"PUT", "PATCH"} -> "UPDATE"
                                 [] method = "DELETE" -> "DELETE"
                                 [] OTHER -> "READ")

\* C18 as stated: on a route that is not public and declares no resource
\* PermissionGuard.canActivate allows every request; it denies only when a
\* resource is declared and checkPermission fails for resource:action, the
\* action being the declared one or else the one inferred from the method.
C18_DeniesOnlyOnFailedCheck ==
    (last.op = "PermissionGuard.canActivate" /\ ~last.args.route.isPublic) =>
        /\ last.args.route.resource = "" => last.result.allowed
        /\ ~last.result.allowed =>
              /\ last.args.route.resource # ""
              /\ ~checkPermission(last.args.user.permissions,
                                  Required(last.args.route, last.args.method))

\* C18, amended: on a route that is not public PermissionGuard.canActivate
\* denies a request that carries no user; a request that carries one it
\* allows when no resource is declared, whatever its permission list, and
\* denies exactly when a resource is declared and checkPermission fails for
\* resource:action.
C18_NoResourceAllowsAuthenticated ==
    (last.op = "PermissionGuard.canActivate" /\ ~last.args.route.isPublic) =>
        IF last.args.user = NoUserPayload
        THEN ~last.result.allowed /\ last.result.status = 403
        ELSE /\ last.args.route.resource = "" => last.result.allowed
             /\ ~last.result.allowed <=>
                   /\ last.args.route.resource # ""
                   /\ ~checkPermission(last.args.user.permissions,
                                       Required(last.args.route, last.args.method))

C18_Witness ==
    /\ last.op = "PermissionGuard.canActivate"
    /\ ~last.args.route.isPublic
    /\ last.args.route.resource = ""
    /\ last.args.user # NoUserPayload
    /\ last.args.user.permissions = <<>>
    /\ last.args.method = "OPTIONS"
    /\ last.result.allowed

\* the fixed table: the HTTP status of a transport status
HttpOfGrpc(code) ==
    CASE code = codes.AlreadyExists -> 409
      [] code = codes.Unauthenticated -> 401
      [] code = codes.NotFound -> 404
      [] code = codes.InvalidArgument -> 400
      [] code = codes.Internal -> 500
      [] code = codes.Unavailable -> 503
      [] code = codes.DeadlineExceeded -> 504
      [] OTHER -> 0

\* C19: a register, login or refresh call whose worker RPC fails with
\* transport status s is answered with the HTTP status the fixed table gives
\* for s: 409 for a duplicate registration (ALREADY_EXISTS), 401 for a wrong
\* password (UNAUTHENTICATED), 404, 400, 500, 503, 504 for NOT_FOUND,
\* INVALID_ARGUMENT, INTERNAL, UNAVAILABLE, DEADLINE_EXCEEDED.
C19_HttpStatusOfGrpcStatus ==
    (/\ last.op \in {"register", "login", "refresh"}
     /\ "grpc" \in DOMAIN last
     /\ last.grpc # codes.OK
     /\ HttpOfGrpc(last.grpc) # 0)
    => last.http = HttpOfGrpc(last.grpc)

\* the status family of a domain error
StatusOfError(err) ==
    IF err = ErrUserNotFound THEN codes.NotFound
    ELSE IF err \in {ErrEmailAlreadyExists, ErrUsernameAlreadyExists} THEN codes.AlreadyExists
    ELSE IF err \in {ErrUserInactive, ErrInvalidCredentials, ErrIncorrectPassword,
                     ErrInvalidToken, ErrTokenExpired}
    THEN codes.Unauthenticated
    ELSE codes.Internal

\* C20: every error Register, Login and RefreshAccessToken answer reaches the
\* transport with the status of its kind: NOT_FOUND for UserNotFound,
\* ALREADY_EXISTS for an e-mail or user name that exists, UNAUTHENTICATED for
\* UserInactive, InvalidCredentials, IncorrectPassword, InvalidToken and
\* TokenExpired, INTERNAL for the others.
C20_GrpcStatusOfDomainError ==
    (last.op \in {"Register", "Login", "RefreshToken"} /\ last.err # NoError)
        => last.status = StatusOfError(last.err.err)

\* the password hashes the store holds
StoredHashes == {users[id].password : id \in DOMAIN users}

\* the text a token carries: its claims other than the two dates
TokenText(token) ==
    IF token = NoToken THEN {}
    ELSE {token.claims[n] : n \in DOMAIN token.claims \ {"iat", "exp"}}

\* the text of a user view: its fields other than the flag and the grants
UserText(user) == {user[f] : f \in DOMAIN user \ {"isActive", "permissions"}}

\* C21: no answer of Register, Login, RefreshToken or ValidateToken, success or
\* failure, carries a stored password hash: the user the engine returns has an
\* empty password field, the pb.User of the RPC has no field holding a hash,
\* and no message and no claim of a returned token is a hash.
C21_PasswordHashNeverReturned ==
    /\ last.op \in {"Register", "Login"} =>
          /\ last.err = NoError => last.user.password = ""
          /\ UserText(last.user) \cap StoredHashes = {}
          /\ UserText(mapUserToProto(last.user)) \cap StoredHashes = {}
          /\ "password" \notin DOMAIN mapUserToProto(last.user)
          /\ last.err.message \notin StoredHashes
          /\ (TokenText(last.accessToken) \cup TokenText(last.refreshToken))
                 \cap StoredHashes = {}
    /\ last.op = "RefreshToken" =>
          /\ last.err.message \notin StoredHashes
          /\ TokenText(last.accessToken) \cap StoredHashes = {}
    /\ last.op = "ValidateToken" =>
          /\ last.result.err.message \notin StoredHashes
          /\ {last.result.userID, last.result.email, last.response.message}
                 \cap StoredHashes = {}
          /\ UserText(last.response.user) \cap StoredHashes = {}

C21_Witness ==
    /\ last.op = "Login"
    /\ last.err = NoError
    /\ users[last.user.id].password = BcryptHash(last.args.password)
    /\ last.user.password = ""
    /\ last.accessToken # NoToken

\* C22: a RefreshToken call with a refresh token that verifies (every
\* collaborator call succeeding) goes by the store as it is at the call: it
\* answers UserNotFound and no token when the subject's row is gone,
\* UserInactive and no token when the row is inactive, and otherwise a new
\* access token whose role claim is the code of the role the row has now.
C22_RefreshGoesByCurrentStore ==
    (/\ last.op = "RefreshToken"
     /\ last.fault = "none"
     /\ parseRefreshToken(last.args.refreshToken) = NoError)
    => LET sub == Claim(last.args.refreshToken, "sub")
       IN  IF sub \notin DOMAIN users
           THEN /\ last.err.err = ErrUserNotFound
                /\ last.err.code = CodeUserNotFound
                /\ last.accessToken = NoToken
           ELSE IF ~users[sub].isActive
           THEN /\ last.err.err = ErrUserInactive
                /\ last.accessToken = NoToken
           ELSE /\ last.err = NoError
                /\ Claim(last.accessToken, "sub") = sub
                /\ Claim(last.accessToken, "role") = Roles[users[sub].roleId].code

\* a refresh token issued at registration (role STUDENT) buys an access
\* token with the role the account was given afterwards
C22_Witness ==
    /\ last.op = "RefreshToken"
    /\ last.err = NoError
    /\ parseRefreshToken(last.args.refreshToken) = NoError
    /\ Claim(last.accessToken, "role") = "ADMIN"

\* the token of the latest ValidateToken call passes the signature and expiry
\* verification
Verifies == ParseWithClaims(last.args.accessToken, cfg.accessSecret) = ""

\* the user lookup of the latest ValidateToken call failed
LookupFailed ==
    last.fault = "find_user" \/ Claim(last.args.accessToken, "sub") \notin DOMAIN users

\* C23 as stated: ValidateAccessToken answers valid with the token's subject
\* for every token that verifies, and not valid only for a token that does
\* not; e-mail and permissions are those of the store at the call, and empty
\* when the user lookup fails.
C23_ValidateAnswersLiveStore ==
    last.op = "ValidateToken" =>
        /\ last.result.valid <=> Verifies
        /\ Verifies =>
              LET sub == Claim(last.args.accessToken, "sub")
              IN  /\ last.result.err = NoError
                  /\ last.result.userID = sub
                  /\ IF LookupFailed
                     THEN last.result.email = "" /\ last.result.permissions = {}
                     ELSE /\ last.result.email = users[sub].email
                          /\ last.result.permissions = permissions[users[sub].roleId]

\* C23 amended: as above, and the permissions are empty as well when the
\* user is found and the permission lookup fails.
C23_ValidateAnswersLiveStoreOrEmpty ==
    last.op = "ValidateToken" =>
        /\ last.result.valid <=> Verifies
        /\ Verifies =>
              LET sub == Claim(last.args.accessToken, "sub")
              IN  /\ last.result.err = NoError
                  /\ last.result.userID = sub
                  /\ IF LookupFailed
                     THEN last.result.email = "" /\ last.result.permissions = {}
                     ELSE /\ last.result.email = users[sub].email
                          /\ last.result.permissions =
                                IF last.fault = "get_permissions" THEN {}
                                ELSE permissions[users[sub].roleId]

\* a token of a deleted account is answered valid, with nothing from the store
C23_Witness ==
    /\ last.op = "ValidateToken"
    /\ Verifies
    /\ last.fault = "none"
    /\ Claim(last.args.accessToken, "sub") \notin DOMAIN users
    /\ last.result.valid
    /\ last.result.userID = Claim(last.args.accessToken, "sub")
    /\ last.result.email = ""

\* the key of a refresh-token entry, of a session set
RefreshKey(u, t) == buildKey(<<REFRESH_TOKEN, u, t>>)
SessionKey(u) == buildKey(<<USER_SESSIONS, u>>)

\* key k is in db2 what it is in db1
SameKey(db1, db2, k) ==
    /\ k \in DOMAIN db1 <=> k \in DOMAIN db2
    /\ k \in DOMAIN db1 => db1[k] = db2[k]

\* what revokeRefreshToken(u, t) does to the token and leaves alone
RevokeEffect(u, t) ==
    /\ validateRefreshToken(redis', u, t) = Null
    /\ t \notin DOMAIN getUserSessions(redis', u)
    /\ t \notin SMembers(redis', SessionKey(u))
    /\ \A v \in UserIds, s \in TokenIds :
          <<v, s>> # <<u, t>> =>
              /\ SameKey(redis, redis', RefreshKey(v, s))
              /\ s \in SMembers(redis', SessionKey(v)) <=> s \in SMembers(redis, SessionKey(v))
    /\ \A v \in UserIds \ {u} : SameKey(redis, redis', SessionKey(v))
    /\ \A j \in TokenIds : SameKey(redis, redis', buildKey(<<BLACKLIST, j>>))

\* C24 as stated: revokeRefreshToken(userId, tokenId) leaves
\* validateRefreshToken(userId, tokenId) null and the token out of
\* getUserSessions(userId), leaves every other refresh entry, every other
\* member of every session set and every blacklist entry as it was, and
\* changes nothing when the token has no refresh entry.
C24_RevokeRefreshToken ==
    [][last'.op = "revokeRefreshToken" =>
          /\ RevokeEffect(last'.args.userId, last'.args.tokenId)
          /\ validateRefreshToken(redis, last'.args.userId, last'.args.tokenId) = Null
                => redis' = redis]_vars

\* C24 amended: as above, but the call changes nothing only when the token
\* has no refresh entry and is not a member of the user's session set.
C24_RevokeRefreshTokenOrStaleMember ==
    [][last'.op = "revokeRefreshToken" =>
          /\ RevokeEffect(last'.args.userId, last'.args.tokenId)
          /\ (/\ validateRefreshToken(redis, last'.args.userId, last'.args.tokenId) = Null
              /\ last'.args.tokenId \notin SMembers(redis, SessionKey(last'.args.userId)))
                => redis' = redis]_vars

\* a token was revoked beside another session of the same user, a session of
\* the other user and a blacklist entry
C24_Witness ==
    /\ last.op = "revokeRefreshToken"
    /\ validateRefreshToken(redis, last.args.userId, last.args.tokenId) = Null
    /\ \E s \in TokenIds \ {last.args.tokenId} :
          /\ validateRefreshToken(redis, last.args.userId, s) # Null
          /\ SMembers(redis, SessionKey(last.args.userId)) = {s}
    /\ \E v \in UserIds \ {last.args.userId} : DOMAIN getUserSessions(redis, v) # {}
    /\ \E j \in TokenIds : isAccessTokenBlacklisted(redis, j)

\* C25: when a Register call that passed both existence checks reaches
\* CreateUser after another call stored a row with its e-mail or user name, it
\* stores nothing and answers UserAlreadyExists; when no such row exists it
\* succeeds and stores exactly one row.
C25_RegisterRaceRejectsLoser ==
    [][\A c \in DOMAIN calls :
          (/\ calls[c].op = "Register"
           /\ calls[c].pc = "CreateUser"
           /\ c \notin DOMAIN calls')
          => IF \/ ExistsByEmail(calls[c].args.email)
                \/ ExistsByUsername(calls[c].args.username)
             THEN /\ users' = users
                  /\ last'.err.code = CodeUserAlreadyExists
                  /\ last'.err.err \in {ErrEmailAlreadyExists, ErrUsernameAlreadyExists}
             ELSE /\ last'.err = NoError
                  /\ Cardinality(DOMAIN users') = Cardinality(DOMAIN users) + 1]_vars

\* C26: whenever no store, revoke or revoke-all call is in flight, every
\* refresh-token entry (userId, tokenId) that validateRefreshToken answers has
\* tokenId in the session set of userId.
C26_LiveTokenIsIndexed ==
    calls = <<>> =>
        \A u \in UserIds, t \in TokenIds :
            validateRefreshToken(redis, u, t) # Null => t \in SMembers(redis, SessionKey(u))

\* C27: for every user, countUserSessions equals the number of sessions
\* getUserSessions returns and the number of live refresh-token entries of
\* the user, and a revokeAllUserTokens call returns the number of live
\* entries the user had.
C27_SessionCountsAgree ==
    /\ [](\A u \in UserIds :
            /\ countUserSessions(redis, u) = Cardinality(DOMAIN getUserSessions(redis, u))
            /\ countUserSessions(redis, u) =
                  Cardinality({t \in TokenIds : validateRefreshToken(redis, u, t) # Null}))
    /\ [][last'.op = "revokeAllUserTokens" =>
            last'.result = Cardinality({t \in TokenIds :
                               validateRefreshToken(redis, last'.args.userId, t) # Null})]_vars

\* the requests Login can be called with
LoginRequests == [identifier : Identifiers, password : Passwords]

LoginSucceedsAfter(args) ==
    \A i \in {args.email, args.username} :
        \A r \in LoginAnswers([identifier |-> i, password |-> args.password], "none")' :
            r.err = NoError /\ r.user.email = args.email

\* C29: a Register that fails before CreateUser succeeded leaves the user
\* store as it was; a Register that fails after it (a token could not be
\* issued) leaves the new row in the store, and then a Login with the e-mail
\* or the user name and the password of the request succeeds and the same
\* Register answers UserAlreadyExists.
C29_FailedRegisterIsRecoverable ==
    [][\A args \in RegisterRequests :
          (last'.op = "Register" /\ last'.args = args /\ last'.err # NoError) =>
              IF last'.fault \in {"sign_access", "sign_refresh"}
              THEN /\ \E id \in DOMAIN users' \ DOMAIN users :
                        /\ DOMAIN users' = DOMAIN users \cup {id}
                        /\ users'[id].email = args.email
                        /\ users'[id].username = args.username
                        /\ users'[id].isActive
                   /\ \A id \in DOMAIN users : users'[id] = users[id]
                   /\ LoginSucceedsAfter(args)
                   /\ RegisterOutcome(args, "none")'.code = CodeUserAlreadyExists
              ELSE users' = users]_vars

\* the error codes, and the messages each operation has for its failure points
ErrorCodes == {CodeUserNotFound, CodeUserAlreadyExists, CodeInvalidCredentials,
               CodeIncorrectPassword, CodeInvalidToken, CodeTokenExpired, CodeInternalError}

FailureMessages(op) ==
    CASE op = "Register" ->
            {"failed to check email existence", "email is already registered",
             "failed to check username existence", "username is already taken",
             "failed to secure password", "failed to generate user ID",
             "failed to assign default role", "failed to create user account",
             "failed to generate access token", "failed to generate refresh token"}
      [] op = "Login" ->
            {"failed to fetch user", "user not found with provided credentials",
             "user account is deactivated", "password verification failed",
             "incorrect password", "failed to fetch user role",
             "failed to generate access token", "failed to generate refresh token"}
      [] op = "RefreshToken" ->
            {"refresh token has expired", "invalid refresh token", "invalid token claims",
             "invalid token subject", "failed to verify user", "user no longer exists",
             "user account is deactivated", "failed to fetch user role",
             "failed to generate new access token"}
      [] op = "ValidateToken" ->
            {"access token has expired", "invalid access token", "invalid token claims"}

\* e is an AuthError of operation op: a code of the fixed set and one of the
\* operation's messages
IsAuthErrorOf(op, e) ==
    /\ DOMAIN e = {"err", "message", "code"}
    /\ e.code \in ErrorCodes
    /\ e.message \in FailureMessages(op)

\* C30: every error Register, Login, RefreshAccessToken and
\* ValidateAccessToken answer, whichever collaborator call failed, is an
\* AuthError with a code of the fixed set and one of the constant messages of
\* the operation, never the text of the collaborator's error; so the handler
\* always finds an AuthError to map.
C30_ErrorsAreAuthErrors ==
    /\ (last.op \in {"Register", "Login", "RefreshToken"} /\ last.err # NoError)
          => IsAuthErrorOf(last.op, last.err)
    /\ (last.op = "ValidateToken" /\ last.result.err # NoError)
          => /\ IsAuthErrorOf(last.op, last.result.err)
             /\ last.response.message = last.result.err.message

\* the hashing library failed during Login, and the answer names the failure
\* point only
C30_Witness ==
    /\ last.op = "Login"
    /\ last.fault = "bcrypt"
    /\ last.err.message = "password verification failed"
    /\ last.err.code = CodeInternalError
====
